---------------------------- MODULE Spec2Model ----------------------------
(***************************************************************************)
(* A model of the interaction-element crawler: the discovery engine of     *)
(* element_finder.py (Scorer, locator synthesis, four strategies,          *)
(* deduplication) and the parts of gui.py / web_crawler.py that drive it.   *)
(*                                                                         *)
(* Conventions.  A Python/JS string is a sequence of one-character (or,    *)
(* for locator syntax, one-token) TLA+ strings, so that containment,       *)
(* lowercasing, concatenation and parsing are computed and not assumed.    *)
(* The empty string '' is <<>>.  A dict is a record; dict.get(k, d) is     *)
(* Get(r, k, d).                                                           *)
(***************************************************************************)
EXTENDS Integers, Sequences, FiniteSets, TLC

VARIABLES
    dom,                  \* the rendered page: a static DOM snapshot
    INTERACTION_KEYWORDS, \* the class-level keyword catalog of InteractionElementFinder
    similarity_threshold, \* the finder's threshold
    fault,                \* the driver failure met by the discovery call, if any
    found_elements,       \* the raw candidate list of a discovery call / the input of a dedup call
    found_from,           \* for each raw candidate, the element it describes and the strategy that built it
    unique_elements,      \* the list a call returned
    raised,               \* whether the discovery call ended by raising
    located,              \* the locators synthesized for one element and what re-querying them selects
    calls,                \* per finder (threshold): its first and its latest discovery of the page
    verdict,              \* what the scorer returned for the element it was given
    crawl,                \* the WebCrawler working through a batch of URLs
    gui,                  \* the CrawlerGUI: its buttons, stop event and crawler threads
    disk,                 \* the directory of one browser profile and the last delete_profile
    phase                 \* position of the modelled caller

vars == <<dom, INTERACTION_KEYWORDS, similarity_threshold, fault, found_elements,
          found_from, unique_elements, raised, located, calls, verdict, crawl, gui, disk,
          phase>>

\* the variables of a discovery call
callVars == <<INTERACTION_KEYWORDS, similarity_threshold, fault, found_from, raised, calls,
              verdict, crawl, gui, disk>>

(***************************************************************************)
(* Bounds of the model.                                                    *)
(***************************************************************************)
MaxRaw == 3            \* longest raw candidate list drawn for a dedup call
MaxNodes == 3          \* elements below <body> in the pages drawn for locator synthesis
MaxElems == 2          \* elements below <body> in the pages drawn for discovery
MaxRunElems == 1       \* elements below <body> in the pages crawled by repeated runs
MaxCustom == 1         \* custom keywords the GUI runs add to the catalog in total
MaxRuns == 2           \* crawler threads the GUI starts
MaxPages == 2          \* valid URLs in the CSV of a GUI run
LongCopies == 19       \* repetitions of a sentence in the long text given to the scorer
MaxUrls == 2           \* rows of the CSV column a batch works through
MaxFound == 2          \* longest discovery output drawn for a crawled page
scroll_count == 2      \* WebCrawler.scroll_count: scroll-to-bottom iterations per page

\* InteractionElementFinder.__init__: similarity_threshold: int = 70
DefaultThreshold == 70

(***************************************************************************)
(* Strings.                                                                *)
(***************************************************************************)
EmptyStr == <<>>
Unknown == <<"Unknown">>                 \* the placeholder "Unknown"

\* Python truthiness of a string: '' is falsy.
Truthy(s) == s # EmptyStr

\* dict.get(key, default)
Get(d, key, default) == IF key \in DOMAIN d THEN d[key] ELSE default

(***************************************************************************)
(* String operations of Python used by the finder.                         *)
(***************************************************************************)
\* str.lower(), on the characters the model's pages use
LowerChar(c) ==
    CASE c = "B" -> "b"
      [] c = "L" -> "l"
      [] c = "T" -> "t"
      [] c = "N" -> "n"
      [] OTHER -> c

Lower(s) == [k \in 1..Len(s) |-> LowerChar(s[k])]

\* `needle in hay` / XPath contains(hay, needle)
Contains(hay, needle) ==
    \E k \in 0..(Len(hay) - Len(needle)) :
        SubSeq(hay, k + 1, k + Len(needle)) = needle

IsSpace(c) == c = " "

RECURSIVE Strip(_)
\* str.strip()
Strip(s) ==
    IF Len(s) = 0 THEN s
    ELSE IF IsSpace(s[1]) THEN Strip(Tail(s))
    ELSE IF IsSpace(s[Len(s)]) THEN Strip(SubSeq(s, 1, Len(s) - 1))
    ELSE s

Max(a, b) == IF a >= b THEN a ELSE b
Min(a, b) == IF a <= b THEN a ELSE b

(***************************************************************************)
(* fuzz.partial_ratio (fuzzywuzzy, called at element_finder.py 125), with  *)
(* difflib's SequenceMatcher: longest matching block first (earliest in a, *)
(* then earliest in b), then the pieces left and right of it.  Indices are *)
(* 1-based and ranges inclusive.                                           *)
(***************************************************************************)
\* difflib's autojunk heuristic (SequenceMatcher.__chain_b): when b has at
\* least AutojunkLen elements, those occurring more than Len(b) \div 100 + 1
\* times are "popular" and no match is searched through them
AutojunkLen == 200

Popular(b) ==
    IF Len(b) < AutojunkLen THEN {}
    ELSE { c \in { b[j] : j \in 1..Len(b) } :
             Cardinality({ j \in 1..Len(b) : b[j] = c }) > (Len(b) \div 100) + 1 }

RECURSIVE CommonRun(_, _, _, _, _, _, _)
\* length of the common run of a[i..ahi] and b[j..bhi] through elements of b
\* that are not popular
CommonRun(a, i, ahi, b, j, bhi, popular) ==
    IF i > ahi \/ j > bhi THEN 0
    ELSE IF a[i] # b[j] \/ b[j] \in popular THEN 0
    ELSE 1 + CommonRun(a, i + 1, ahi, b, j + 1, bhi, popular)

RECURSIVE ExtendLeft(_, _, _, _, _)
\* how far a match starting at (i, j) extends to the left over equal elements
ExtendLeft(a, alo, b, blo, m) ==
    IF m[1] > alo /\ m[2] > blo /\ a[m[1] - 1] = b[m[2] - 1]
    THEN ExtendLeft(a, alo, b, blo, <<m[1] - 1, m[2] - 1, m[3] + 1>>)
    ELSE m

RECURSIVE ExtendRight(_, _, _, _, _)
ExtendRight(a, ahi, b, bhi, m) ==
    IF m[1] + m[3] <= ahi /\ m[2] + m[3] <= bhi /\ a[m[1] + m[3]] = b[m[2] + m[3]]
    THEN ExtendRight(a, ahi, b, bhi, <<m[1], m[2], m[3] + 1>>)
    ELSE m

\* the longest run, the earliest in a and then in b among the longest
LongestRun(a, alo, ahi, b, blo, bhi, popular) ==
    LET runs == { <<i, j, CommonRun(a, i, ahi, b, j, bhi, popular)>> :
                     i \in alo..ahi, j \in blo..bhi }
        best == IF runs = {} THEN 0
                ELSE CHOOSE k \in { r[3] : r \in runs } : \A r \in runs : r[3] <= k
    IN IF best = 0 THEN <<alo, blo, 0>>
       ELSE CHOOSE r \in runs :
                /\ r[3] = best
                /\ \A q \in runs : q[3] = best =>
                       (r[1] < q[1] \/ (r[1] = q[1] /\ r[2] <= q[2]))

\* SequenceMatcher.find_longest_match: the longest run outside the popular
\* elements, then extended over equal elements on both sides
find_longest_match(a, alo, ahi, b, blo, bhi, popular) ==
    ExtendRight(a, ahi, b, bhi,
                ExtendLeft(a, alo, b, blo,
                           LongestRun(a, alo, ahi, b, blo, bhi, popular)))

RECURSIVE get_matching_blocks(_, _, _, _, _, _, _)
\* the matching blocks left of m, m, and those right of m
Around(a, alo, ahi, b, blo, bhi, popular, m) ==
    IF m[3] = 0 THEN <<>>
    ELSE get_matching_blocks(a, alo, m[1] - 1, b, blo, m[2] - 1, popular)
             \o <<m>>
             \o get_matching_blocks(a, m[1] + m[3], ahi, b, m[2] + m[3], bhi, popular)

\* SequenceMatcher.get_matching_blocks, without the final sentinel
get_matching_blocks(a, alo, ahi, b, blo, bhi, popular) ==
    IF alo > ahi \/ blo > bhi THEN <<>>
    ELSE Around(a, alo, ahi, b, blo, bhi, popular,
                find_longest_match(a, alo, ahi, b, blo, bhi, popular))

RECURSIVE SumSizes(_)
SumSizes(blocks) ==
    IF Len(blocks) = 0 THEN 0 ELSE blocks[1][3] + SumSizes(Tail(blocks))

\* int(round(100 * 2.0 * matches / length)): round half to even
RoundPercent(matches, length) ==
    LET num == 200 * matches
        q == num \div length
        twice == 2 * (num % length)
    IN IF twice > length THEN q + 1
       ELSE IF twice < length THEN q
       ELSE IF q % 2 = 0 THEN q ELSE q + 1

\* the score of one alignment: 100 when SequenceMatcher.ratio() > .995
RatioScore(a, b) ==
    LET matches == SumSizes(get_matching_blocks(a, 1, Len(a), b, 1, Len(b), Popular(b)))
        length == Len(a) + Len(b)
    IN IF length = 0 THEN 100
       ELSE IF 2000 * matches > 995 * length THEN 100
       ELSE RoundPercent(matches, length)

partial_ratio(s1, s2) ==
    IF s1 = s2 THEN 100
    ELSE IF Len(s1) = 0 \/ Len(s2) = 0 THEN 0
    ELSE LET shorter == IF Len(s1) <= Len(s2) THEN s1 ELSE s2
             longer == IF Len(s1) <= Len(s2) THEN s2 ELSE s1
             blocks == Append(get_matching_blocks(shorter, 1, Len(shorter),
                                                  longer, 1, Len(longer),
                                                  Popular(longer)),
                              <<Len(shorter) + 1, Len(longer) + 1, 0>>)
             starts == { Max(blocks[k][2] - blocks[k][1], 0) : k \in 1..Len(blocks) }
             scores == { RatioScore(shorter,
                                    SubSeq(longer, st + 1,
                                           Min(st + Len(shorter), Len(longer))))
                         : st \in starts }
         IN CHOOSE x \in scores : \A y \in scores : y <= x

(***************************************************************************)
(* The rendered page.  Node 0 is the document; the elements are 1..dom.n,  *)
(* with 1 = <html>, 2 = <head>, 3 = <body> (document.body).  Siblings are  *)
(* ordered by node number, and nodes are numbered in document order        *)
(* (preorder).  Tag names are kept in lowercase.                           *)
(***************************************************************************)
DocumentNode == 0
HtmlNode == 1
HeadNode == 2
BodyNode == 3

Elements(d) == 1..d.n
Children(d, p) == { m \in Elements(d) : d.parent[m] = p }

RECURSIVE IsDescendant(_, _, _)
\* m is a proper descendant of a
IsDescendant(d, m, a) ==
    IF m = DocumentNode THEN FALSE
    ELSE d.parent[m] = a \/ IsDescendant(d, d.parent[m], a)

DefaultAttr ==
    [class |-> EmptyStr, role |-> EmptyStr, text |-> EmptyStr,
     aria_label |-> EmptyStr, title |-> EmptyStr, value |-> EmptyStr,
     displayed |-> TRUE, enabled |-> TRUE]

BaseParent == (HtmlNode :> DocumentNode) @@ (HeadNode :> HtmlNode) @@ (BodyNode :> HtmlNode)
BaseTag == (HtmlNode :> "html") @@ (HeadNode :> "head") @@ (BodyNode :> "body")
BaseId == [m \in 1..BodyNode |-> EmptyStr]

EmptyDom ==
    [n |-> BodyNode, parent |-> BaseParent, tag |-> BaseTag, id |-> BaseId,
     attr |-> [m \in 1..BodyNode |-> DefaultAttr]]

\* `located` before any locator was synthesized
NotLocated == [node |-> DocumentNode]

RECURSIVE OnPathToBody(_, _, _)
\* a is m or an ancestor of m, up to <body>
OnPathToBody(par, m, a) ==
    IF m = a THEN TRUE
    ELSE IF m = BodyNode THEN FALSE
    ELSE OnPathToBody(par, par[m], a)

\* the parent maps of the trees with k elements below <body>, each numbered
\* in document order: an element hangs below its predecessor or below one of
\* the predecessor's ancestors
ParentMaps(k) ==
    { f \in [(BodyNode + 1)..(BodyNode + k) -> BodyNode..(BodyNode + k)] :
          \A m \in DOMAIN f :
              /\ f[m] < m
              /\ OnPathToBody(BaseParent @@ f, m - 1, f[m]) }

UniqueIds(d) ==
    \A a, b \in Elements(d) : (d.id[a] # EmptyStr /\ d.id[a] = d.id[b]) => a = b

(***************************************************************************)
(* Locator syntax.  A locator is a sequence of tokens; ordinals are        *)
(* rendered in decimal.                                                    *)
(***************************************************************************)
Digits == <<"1", "2", "3", "4", "5", "6", "7", "8", "9">>
ToStr(k) == <<Digits[k]>>
IsDigit(tok) == \E k \in 1..Len(Digits) : Digits[k] = tok
ParseInt(tok) == CHOOSE k \in 1..Len(Digits) : Digits[k] = tok

\* element.id as the script reads it: the id attribute of an element, and
\* undefined (concatenated as "undefined") for the document node
JsId(d, m) == IF m = DocumentNode THEN <<"undefined">> ELSE d.id[m]

\* 1 + the number of preceding element siblings with the same tag name
SameTagOrdinal(d, m) ==
    1 + Cardinality({ s \in Children(d, d.parent[m]) : s < m /\ d.tag[s] = d.tag[m] })

\* the ordinal counted over all preceding element siblings (a mutation)
AnyTagOrdinal(d, m) ==
    1 + Cardinality({ s \in Children(d, d.parent[m]) : s < m })

(***************************************************************************)
(* _generate_xpath (element_finder.py 178-200): the script's getPathTo.    *)
(***************************************************************************)
RECURSIVE getPathTo(_, _)
getPathTo(d, m) ==
    IF JsId(d, m) # EmptyStr
    THEN <<"//*[@id=\"">> \o JsId(d, m) \o <<"\"]">>
    ELSE IF m = BodyNode
    THEN <<"/", "html", "/", "body">>
    ELSE getPathTo(d, d.parent[m])
             \o <<"/", d.tag[m], "[">> \o ToStr(SameTagOrdinal(d, m)) \o <<"]">>

_generate_xpath(d, m) == getPathTo(d, m)

(***************************************************************************)
(* _generate_css_selector (element_finder.py 202-229): getCssSelector.     *)
(* CssLevels is the array `path`, CssJoin the final join(" > ").           *)
(***************************************************************************)
CssLevel(d, m) ==
    IF d.id[m] # EmptyStr
    THEN <<d.tag[m], "#">> \o d.id[m]
    ELSE IF SameTagOrdinal(d, m) # 1
    THEN <<d.tag[m], ":nth-of-type(">> \o ToStr(SameTagOrdinal(d, m)) \o <<")">>
    ELSE <<d.tag[m]>>

\* every level carries its ordinal, the first of its type too (a mutation)
CssLevel_AlwaysNth(d, m) ==
    IF d.id[m] # EmptyStr
    THEN <<d.tag[m], "#">> \o d.id[m]
    ELSE <<d.tag[m], ":nth-of-type(">> \o ToStr(SameTagOrdinal(d, m)) \o <<")">>

RECURSIVE CssLevels(_, _)
CssLevels(d, m) ==
    IF m = DocumentNode THEN <<>>
    ELSE IF d.id[m] # EmptyStr THEN <<CssLevel(d, m)>>
    ELSE Append(CssLevels(d, d.parent[m]), CssLevel(d, m))

RECURSIVE CssJoin(_)
CssJoin(levels) ==
    IF Len(levels) = 0 THEN <<>>
    ELSE IF Len(levels) = 1 THEN levels[1]
    ELSE levels[1] \o <<" > ">> \o CssJoin(Tail(levels))

getCssSelector(d, m) == CssJoin(CssLevels(d, m))

_generate_css_selector(d, m) == getCssSelector(d, m)

(***************************************************************************)
(* The Page Driver's query primitives on locator syntax, as               *)
(* driver.find_element(s)(By.XPATH | By.CSS_SELECTOR, locator) evaluates   *)
(* them (web_crawler.py 279, 295): the locator is parsed token by token    *)
(* and matched against the page.                                           *)
(***************************************************************************)
\* the position of m among the children of its parent that have tag t
PositionAmong(d, m, t) ==
    Cardinality({ s \in Children(d, d.parent[m]) : s <= m /\ d.tag[s] = t })

IndexOfToken(path, tok) ==
    IF \E k \in 1..Len(path) : path[k] = tok
    THEN CHOOSE k \in 1..Len(path) :
             path[k] = tok /\ \A j \in 1..(k - 1) : path[j] # tok
    ELSE 0

Drop(s, k) == SubSeq(s, k + 1, Len(s))

RECURSIVE XPathSteps(_, _, _)
\* location steps /tag or /tag[k] applied to a context node set
XPathSteps(d, ctx, rest) ==
    IF Len(rest) < 2 \/ rest[1] # "/" THEN ctx
    ELSE LET t == rest[2]
             hasIdx == Len(rest) >= 5 /\ rest[3] = "[" /\ IsDigit(rest[4]) /\ rest[5] = "]"
             next == UNION { { m \in Children(d, c) :
                                  /\ d.tag[m] = t
                                  /\ hasIdx => PositionAmong(d, m, t) = ParseInt(rest[4]) }
                             : c \in ctx }
         IN XPathSteps(d, next, IF hasIdx THEN Drop(rest, 5) ELSE Drop(rest, 2))

find_elements_by_xpath(d, path) ==
    IF Len(path) >= 1 /\ path[1] = "//*[@id=\""
    THEN LET close == IndexOfToken(path, "\"]")
             idValue == SubSeq(path, 2, close - 1)
         IN IF close = 0 THEN {}
            ELSE XPathSteps(d, { m \in Elements(d) : d.id[m] = idValue },
                            Drop(path, close))
    ELSE XPathSteps(d, {DocumentNode}, path)

RECURSIVE CssSplit(_)
\* the compound selectors of a child-combinator chain, top first
CssSplit(sel) ==
    LET k == IndexOfToken(sel, " > ")
    IN IF k = 0 THEN <<sel>>
       ELSE <<SubSeq(sel, 1, k - 1)>> \o CssSplit(Drop(sel, k))

\* tag, tag#id or tag:nth-of-type(k)
CssCompoundMatches(d, m, c) ==
    /\ Len(c) >= 1
    /\ d.tag[m] = c[1]
    /\ (Len(c) >= 2 /\ c[2] = "#") => d.id[m] = Drop(c, 2)
    /\ (Len(c) >= 3 /\ c[2] = ":nth-of-type(") =>
           PositionAmong(d, m, c[1]) = ParseInt(c[3])

RECURSIVE CssChainMatches(_, _, _, _)
CssChainMatches(d, m, comps, k) ==
    /\ m # DocumentNode
    /\ CssCompoundMatches(d, m, comps[k])
    /\ k > 1 => CssChainMatches(d, d.parent[m], comps, k - 1)

find_elements_by_css(d, sel) ==
    LET comps == CssSplit(sel)
    IN { m \in Elements(d) : CssChainMatches(d, m, comps, Len(comps)) }

(***************************************************************************)
(* _deduplicate_elements (element_finder.py 231-242).  The loop over the   *)
(* list, with its accumulator, as a recursion over prefixes.               *)
(***************************************************************************)
RECURSIVE SeenXpaths(_, _)
\* seen_xpaths after the first k records have been visited
SeenXpaths(elems, k) ==
    IF k = 0 THEN {}
    ELSE LET xpath == Get(elems[k], "element_xpath", EmptyStr)
             seen == SeenXpaths(elems, k - 1)
         IN IF Truthy(xpath) /\ xpath \notin seen THEN seen \cup {xpath} ELSE seen

RECURSIVE DedupUpTo(_, _)
\* unique_elements after the first k records have been visited
DedupUpTo(elems, k) ==
    IF k = 0 THEN <<>>
    ELSE LET xpath == Get(elems[k], "element_xpath", EmptyStr)
             seen == SeenXpaths(elems, k - 1)
             kept == DedupUpTo(elems, k - 1)
         IN IF Truthy(xpath) /\ xpath \notin seen THEN Append(kept, elems[k]) ELSE kept

\* A dedup in which the last record seen for a locator wins (a mutation of
\* the code: the seen-set test replaced by a look-ahead).
RECURSIVE DedupLastWins(_, _)
DedupLastWins(elems, k) ==
    IF k = 0 THEN <<>>
    ELSE LET xpath == Get(elems[k], "element_xpath", EmptyStr)
             later == {j \in (k + 1)..Len(elems) :
                          Get(elems[j], "element_xpath", EmptyStr) = xpath}
             kept == DedupLastWins(elems, k - 1)
         IN IF Truthy(xpath) /\ later = {} THEN Append(kept, elems[k]) ELSE kept

Dedup_KeepsLast(elems) == DedupLastWins(elems, Len(elems))

\* A dedup keeping the records whose locator was seen before (a mutation:
\* the two branches of the seen-set test swapped).
RECURSIVE DedupRepeats(_, _)
DedupRepeats(elems, k) ==
    IF k = 0 THEN <<>>
    ELSE LET xpath == Get(elems[k], "element_xpath", EmptyStr)
             earlier == {j \in 1..(k - 1) :
                            Get(elems[j], "element_xpath", EmptyStr) = xpath}
             kept == DedupRepeats(elems, k - 1)
         IN IF Truthy(xpath) /\ earlier # {} THEN Append(kept, elems[k]) ELSE kept

Dedup_KeepsRepeats(elems) == DedupRepeats(elems, Len(elems))

\* A dedup whose test is only `xpath not in seen_xpaths` (a mutation: the
\* truthiness test on the locator left out).
RECURSIVE DedupAnyXpath(_, _)
DedupAnyXpath(elems, k) ==
    IF k = 0 THEN <<>>
    ELSE LET xpath == Get(elems[k], "element_xpath", EmptyStr)
             earlier == {j \in 1..(k - 1) :
                            Get(elems[j], "element_xpath", EmptyStr) = xpath}
             kept == DedupAnyXpath(elems, k - 1)
         IN IF earlier = {} THEN Append(kept, elems[k]) ELSE kept

Dedup_NoTruthTest(elems) == DedupAnyXpath(elems, Len(elems))

\* no deduplication at all (a mutation: the raw list returned as it is)
Dedup_KeepsAll(elems) == elems

_deduplicate_elements(elems) == DedupUpTo(elems, Len(elems))

(***************************************************************************)
(* Records as _create_element_info builds them (element_finder.py 156-176).*)
(***************************************************************************)
ElementInfo(text, tag, class, id, aria, title, html, xpath, css, term, type) ==
    [element_text |-> text, element_tag |-> tag, element_class |-> class,
     element_id |-> id, element_aria_label |-> aria, element_title |-> title,
     element_html |-> html, element_xpath |-> xpath, element_css |-> css,
     match_term |-> term, match_type |-> type]

ErrorInfo(err, term, type) ==
    [element_text |-> <<"Error extracting element info">>,
     element_tag |-> <<"unknown">>, error |-> err,
     match_term |-> term, match_type |-> type]

(***************************************************************************)
(* The catalogs (element_finder.py 13-32).  The model keeps two keywords   *)
(* of the built-in catalog and one selector of each form the catalog uses  *)
(* (tag, class, attribute substring); a selector is kept parsed.           *)
(***************************************************************************)
W_like == <<"l", "i", "k", "e">>
W_vote == <<"v", "o", "t", "e">>
W_zap == <<"z", "a", "p">>
W_count == <<"c", "o", "u", "n", "t">>
W_num == <<"n", "u", "m">>
W_score == <<"s", "c", "o", "r", "e">>
W_button == <<"b", "u", "t", "t", "o", "n">>
W_btn == <<"b", "t", "n">>
W_upvote == <<"u", "p", "v", "o", "t", "e">>

BuiltinKeywords == <<W_like, W_vote>>

ELEMENT_SELECTORS ==
    << [tag |-> "button", class |-> EmptyStr, attr |-> "none", sub |-> EmptyStr],
       [tag |-> "none", class |-> W_upvote, attr |-> "none", sub |-> EmptyStr],
       [tag |-> "none", class |-> EmptyStr, attr |-> "aria_label", sub |-> W_like] >>

RECURSIVE SplitWords(_)
\* the whitespace-separated tokens of a class attribute
SplitWords(s) ==
    LET t == Strip(s)
        k == IndexOfToken(t, " ")
    IN IF Len(t) = 0 THEN {}
       ELSE IF k = 0 THEN {t}
       ELSE {SubSeq(t, 1, k - 1)} \cup SplitWords(Drop(t, k))

\* the elements of a set of nodes, in document order
RECURSIVE InDocumentOrder(_)
InDocumentOrder(S) ==
    IF S = {} THEN <<>>
    ELSE LET m == CHOOSE x \in S : \A y \in S : x <= y
         IN <<m>> \o InDocumentOrder(S \ {m})

(***************************************************************************)
(* The four queries of find_interaction_elements, as the driver answers    *)
(* them on the page.                                                       *)
(***************************************************************************)
\* //*[contains(text(), kw) or contains(@value, kw) or
\*     contains(@aria-label, kw) or contains(@title, kw)]   (lines 55-58)
KeywordQuery(d, kw) ==
    InDocumentOrder({ m \in Elements(d) :
        \/ Contains(d.attr[m].text, kw)
        \/ Contains(d.attr[m].value, kw)
        \/ Contains(d.attr[m].aria_label, kw)
        \/ Contains(d.attr[m].title, kw) })

\* driver.find_elements(By.CSS_SELECTOR, selector)           (line 67)
SelectorQuery(d, sel) ==
    InDocumentOrder({ m \in Elements(d) :
        /\ sel.tag # "none" => d.tag[m] = sel.tag
        /\ sel.class # EmptyStr => sel.class \in SplitWords(d.attr[m].class)
        /\ sel.attr # "none" => Contains(d.attr[m][sel.attr], sel.sub) })

\* //button[.//svg] | //a[.//svg] | //div[.//svg and @role='button']  (line 75)
SvgQuery(d) ==
    InDocumentOrder({ m \in Elements(d) :
        /\ \E c \in Elements(d) : d.tag[c] = "svg" /\ IsDescendant(d, c, m)
        /\ \/ d.tag[m] \in {"button", "a"}
           \/ d.tag[m] = "div" /\ d.attr[m].role = W_button })

\* //span[contains(@class,'count') or contains(@class,'num') or
\*        contains(@class,'score')]                            (lines 81-83)
CounterQuery(d) ==
    InDocumentOrder({ m \in Elements(d) :
        /\ d.tag[m] = "span"
        /\ \/ Contains(d.attr[m].class, W_count)
           \/ Contains(d.attr[m].class, W_num)
           \/ Contains(d.attr[m].class, W_score) })

(***************************************************************************)
(* Driver failures.  A call meets at most one kind of failure: the         *)
(* operation op raises whenever it is invoked in strategy `strategy` (for  *)
(* a query of strategies 1 and 2: at the index-th keyword / selector).     *)
(***************************************************************************)
NoFault == [op |-> "none", strategy |-> 0, index |-> 0]

Fails(f, op, strategy, index) ==
    /\ f.op = op
    /\ f.strategy = strategy
    /\ op = "find_elements" => f.index = index

Strategies == 1..4

(***************************************************************************)
(* _is_likely_interaction_element (element_finder.py 93-131).  `stale` is  *)
(* a driver access on the element raising inside the try block.            *)
(***************************************************************************)
\* combined_text of an element with attributes a and id i (line 110)
CombinedTextOf(a, i) ==
    Lower(Lower(a.text) \o <<" ">> \o a.class \o <<" ">> \o i
          \o <<" ">> \o a.aria_label \o <<" ">> \o a.title)

CombinedText(d, m) == CombinedTextOf(d.attr[m], d.id[m])

\* The kinds of element the pages drawn for discovery are made of.
ElementKinds ==
    { [tag |-> "button", id |-> EmptyStr,
       attr |-> [DefaultAttr EXCEPT !.text = W_like]],
      [tag |-> "button", id |-> <<"a">>,
       attr |-> [DefaultAttr EXCEPT !.aria_label = W_like]],
      [tag |-> "span", id |-> EmptyStr,
       attr |-> [DefaultAttr EXCEPT !.text = W_like]],
      [tag |-> "span", id |-> EmptyStr,
       attr |-> [DefaultAttr EXCEPT !.class = W_count]],
      [tag |-> "svg", id |-> EmptyStr, attr |-> DefaultAttr],
      [tag |-> "button", id |-> EmptyStr,
       attr |-> [DefaultAttr EXCEPT !.text = W_zap]],
      [tag |-> "div", id |-> EmptyStr,
       attr |-> [DefaultAttr EXCEPT !.class = <<"B", "T", "N", " ">> \o W_upvote,
                                    !.aria_label = W_like]],
      [tag |-> "button", id |-> EmptyStr,
       attr |-> [DefaultAttr EXCEPT !.text = W_like, !.displayed = FALSE]] }

\* every keyword a catalog of the model can hold
KeywordUniverse == { W_like, W_vote, W_zap }

\* fuzz.partial_ratio(keyword.lower(), combined_text), tabulated once over
\* the keywords and the combined texts of the model's pages
SimilarityTable ==
    [kw \in KeywordUniverse,
     blob \in { CombinedTextOf(k.attr, k.id) : k \in ElementKinds }
               \cup { CombinedTextOf(DefaultAttr, EmptyStr) }
        |-> partial_ratio(Lower(kw), blob)]

Similarity(keyword, combined_text) ==
    IF <<keyword, combined_text>> \in DOMAIN SimilarityTable
    THEN SimilarityTable[keyword, combined_text]
    ELSE partial_ratio(Lower(keyword), combined_text)

IsClickable(d, m) ==
    \/ d.tag[m] \in {"button", "a", "input"}
    \/ d.attr[m].role \in { W_button, <<"l", "i", "n", "k">>,
                            <<"c", "h", "e", "c", "k", "b", "o", "x">>,
                            <<"r", "a", "d", "i", "o">> }
    \/ Contains(Lower(d.attr[m].class), W_button)
    \/ Contains(Lower(d.attr[m].class), W_btn)

\* the threshold test made strict (a mutation)
ScoreAccepts_Strict(similarity, threshold) == similarity > threshold

\* the threshold test reversed (a mutation)
ScoreAccepts_Reversed(similarity, threshold) == similarity <= threshold

ScoreAccepts(similarity, threshold) == similarity >= threshold

\* the scorer without the is_enabled test (a mutation)
Likely_IgnoresEnabled(d, m, keywords, threshold, stale) ==
    IF stale THEN FALSE
    ELSE IF ~d.attr[m].displayed THEN FALSE
    ELSE \E k \in 1..Len(keywords) :
             /\ ScoreAccepts(Similarity(keywords[k], CombinedText(d, m)), threshold)
             /\ IsClickable(d, m)

\* the keyword loop without the clickability conjunct (a mutation)
Likely_NoGate(d, m, keywords, threshold, stale) ==
    IF stale THEN FALSE
    ELSE IF ~d.attr[m].displayed \/ ~d.attr[m].enabled THEN FALSE
    ELSE \E k \in 1..Len(keywords) :
             ScoreAccepts(Similarity(keywords[k], CombinedText(d, m)), threshold)

_is_likely_interaction_element(d, m, keywords, threshold, stale) ==
    IF stale THEN FALSE
    ELSE IF ~d.attr[m].displayed \/ ~d.attr[m].enabled THEN FALSE
    ELSE \E k \in 1..Len(keywords) :
             /\ ScoreAccepts(Similarity(keywords[k], CombinedText(d, m)), threshold)
             /\ IsClickable(d, m)

(***************************************************************************)
(* _create_element_info (element_finder.py 133-176).                       *)
(***************************************************************************)
\* element.get_attribute('outerHTML'), abridged to the element's own tag and text
OuterHTML(d, m) ==
    <<"<", d.tag[m], ">">> \o d.attr[m].text \o <<"</", d.tag[m], ">">>

\* the record builder without the two inner try blocks (a mutation: a failing
\* locator script reaches the outer handler and yields the error record)
CreateInfo_NoInnerTry(d, m, match_term, match_type, f, strategy) ==
    IF \/ Fails(f, "get_attribute", strategy, 0)
       \/ Fails(f, "xpath_script", strategy, 0)
       \/ Fails(f, "css_script", strategy, 0)
    THEN ErrorInfo(<<"stale element reference">>, match_term, match_type)
    ELSE ElementInfo(Strip(d.attr[m].text), <<d.tag[m]>>, d.attr[m].class, d.id[m],
                     d.attr[m].aria_label, d.attr[m].title, OuterHTML(d, m),
                     _generate_xpath(d, m), _generate_css_selector(d, m),
                     match_term, match_type)

_create_element_info(d, m, match_term, match_type, f, strategy) ==
    IF Fails(f, "get_attribute", strategy, 0)
    THEN ErrorInfo(<<"stale element reference">>, match_term, match_type)
    ELSE ElementInfo(Strip(d.attr[m].text), <<d.tag[m]>>, d.attr[m].class, d.id[m],
                     d.attr[m].aria_label, d.attr[m].title, OuterHTML(d, m),
                     IF Fails(f, "xpath_script", strategy, 0)
                         THEN Unknown ELSE _generate_xpath(d, m),
                     IF Fails(f, "css_script", strategy, 0)
                         THEN Unknown ELSE _generate_css_selector(d, m),
                     match_term, match_type)

(***************************************************************************)
(* find_interaction_elements (element_finder.py 42-91).  A candidate is    *)
(* the record appended to found_elements together with the element it was  *)
(* built from and the strategy that built it.  Each strategy yields        *)
(* [raised, cands]: whether an exception left it, and what it appended.    *)
(***************************************************************************)
RECURSIVE Filtered(_, _, _, _, _, _, _, _)
\* the inner loop `for element in elements: if likely: append(info)`
Filtered(d, hits, keywords, threshold, f, strategy, term, type) ==
    IF Len(hits) = 0 THEN <<>>
    ELSE (IF _is_likely_interaction_element(d, hits[1], keywords, threshold,
                                            Fails(f, "is_displayed", strategy, 0))
          THEN <<[node |-> hits[1], strategy |-> strategy,
                  info |-> _create_element_info(d, hits[1], term, type, f, strategy)]>>
          ELSE <<>>)
         \o Filtered(d, Tail(hits), keywords, threshold, f, strategy, term, type)

\* the candidates of one query put in front of the list instead of at its
\* end (a mutation: insert(0, ...) for append)
Appended_Prepends(here, rest) == [raised |-> rest.raised, cands |-> rest.cands \o here]

\* the candidates of one query, followed by what the rest of the loop yields
Appended(here, rest) == [raised |-> rest.raised, cands |-> here \o rest.cands]

RECURSIVE KeywordStrategy(_, _, _, _, _)
\* lines 54-62, from the k-th keyword on: a failing query is not caught
KeywordStrategy(d, keywords, threshold, f, k) ==
    IF k > Len(keywords) THEN [raised |-> FALSE, cands |-> <<>>]
    ELSE IF Fails(f, "find_elements", 1, k) THEN [raised |-> TRUE, cands |-> <<>>]
    ELSE Appended(Filtered(d, KeywordQuery(d, keywords[k]), keywords, threshold,
                           f, 1, keywords[k], "keyword_match"),
                  KeywordStrategy(d, keywords, threshold, f, k + 1))

\* the name a selector is recorded under as match_term
SelectorText(sel) ==
    (IF sel.tag # "none" THEN <<sel.tag>> ELSE <<>>)
    \o (IF sel.class # EmptyStr THEN <<".">> \o sel.class ELSE <<>>)
    \o (IF sel.attr # "none" THEN <<"[", sel.attr, "*=\"">> \o sel.sub \o <<"\"]">> ELSE <<>>)

RECURSIVE SelectorStrategy_Breaks(_, _, _, _, _)
\* a failing query ending the selector loop (a mutation: break for continue)
SelectorStrategy_Breaks(d, keywords, threshold, f, k) ==
    IF k > Len(ELEMENT_SELECTORS) THEN [raised |-> FALSE, cands |-> <<>>]
    ELSE IF Fails(f, "find_elements", 2, k) THEN [raised |-> FALSE, cands |-> <<>>]
    ELSE Appended(Filtered(d, SelectorQuery(d, ELEMENT_SELECTORS[k]), keywords,
                           threshold, f, 2, SelectorText(ELEMENT_SELECTORS[k]),
                           "selector_match"),
                  SelectorStrategy_Breaks(d, keywords, threshold, f, k + 1))

RECURSIVE SelectorStrategy(_, _, _, _, _)
\* lines 65-72, from the k-th selector on: a failing query is caught and skipped
SelectorStrategy(d, keywords, threshold, f, k) ==
    IF k > Len(ELEMENT_SELECTORS) THEN [raised |-> FALSE, cands |-> <<>>]
    ELSE Appended(IF Fails(f, "find_elements", 2, k) THEN <<>>
                  ELSE Filtered(d, SelectorQuery(d, ELEMENT_SELECTORS[k]), keywords,
                                threshold, f, 2, SelectorText(ELEMENT_SELECTORS[k]),
                                "selector_match"),
                  SelectorStrategy(d, keywords, threshold, f, k + 1))

\* the icon strategy tagging its records as the selector strategy does (a
\* mutation: the tag copied from the loop above)
SvgStrategy_Mislabelled(d, keywords, threshold, f) ==
    IF Fails(f, "find_elements", 3, 1) THEN [raised |-> TRUE, cands |-> <<>>]
    ELSE [raised |-> FALSE,
          cands |-> Filtered(d, SvgQuery(d), keywords, threshold, f, 3,
                             <<"svg_icon">>, "selector_match")]

\* lines 75-78
SvgStrategy(d, keywords, threshold, f) ==
    IF Fails(f, "find_elements", 3, 1) THEN [raised |-> TRUE, cands |-> <<>>]
    ELSE [raised |-> FALSE,
          cands |-> Filtered(d, SvgQuery(d), keywords, threshold, f, 3,
                             <<"svg_icon">>, "svg_match")]

\* the counter spans mapped to their parents: element.find_element(By.XPATH, "..")
ParentsOf(d, hits) == [k \in 1..Len(hits) |-> d.parent[hits[k]]]

\* the counter spans themselves (a mutation: the parent step left out)
CounterTargets_Self(d, hits) == hits

CounterTargets(d, hits) == ParentsOf(d, hits)

\* lines 81-87: neither the query nor the parent lookup is guarded
CounterStrategy(d, keywords, threshold, f) ==
    IF Fails(f, "find_elements", 4, 1) THEN [raised |-> TRUE, cands |-> <<>>]
    ELSE LET spans == CounterQuery(d)
         IN IF Len(spans) > 0 /\ Fails(f, "find_element", 4, 0)
            THEN [raised |-> TRUE, cands |-> <<>>]
            ELSE [raised |-> FALSE,
                  cands |-> Filtered(d, CounterTargets(d, spans), keywords, threshold,
                                     f, 4, <<"counter_parent">>, "counter_match")]

Infos(cands) == [k \in 1..Len(cands) |-> cands[k].info]
Origins(cands) == [k \in 1..Len(cands) |-> [node |-> cands[k].node,
                                             strategy |-> cands[k].strategy]]

\* the call ends with found_elements = all, and returns their deduplication
Returned(all) ==
    [raised |-> FALSE, cands |-> all, result |-> _deduplicate_elements(Infos(all))]

\* the four strategies in sequence: the first one that raises ends the call
InSequence(s1, s2, s3, s4) ==
    IF s1.raised
    THEN [raised |-> TRUE, cands |-> s1.cands, result |-> <<>>]
    ELSE IF s3.raised
    THEN [raised |-> TRUE, cands |-> s1.cands \o s2.cands, result |-> <<>>]
    ELSE IF s4.raised
    THEN [raised |-> TRUE, cands |-> s1.cands \o s2.cands \o s3.cands, result |-> <<>>]
    ELSE Returned(s1.cands \o s2.cands \o s3.cands \o s4.cands)

\* [raised, cands, result]: cands is found_elements when the call ends
find_interaction_elements(d, keywords, threshold, f) ==
    InSequence(KeywordStrategy(d, keywords, threshold, f, 1),
               SelectorStrategy(d, keywords, threshold, f, 1),
               SvgStrategy(d, keywords, threshold, f),
               CounterStrategy(d, keywords, threshold, f))

\* the thresholds the finders of the model are built with (0-100, default 70)
Thresholds == { 0, DefaultThreshold, 100 }

NotCalled == [called |-> FALSE]

\* a WebCrawler before process_csv: no driver, nothing done
NoCrawl ==
    [csv |-> <<>>, row |-> 1, pc |-> "idle", stop |-> FALSE, driver |-> FALSE, k |-> 0,
     aborted |-> FALSE, attempted |-> {}, began_stopped |-> {}, timed_out |-> {},
     failed |-> {}, done |-> {}, late |-> {}, late_scrolls |-> 0,
     reports |-> {}, clicks |-> {},
     interaction_elements |-> <<>>, discovered |-> {}, save_calls |-> <<>>,
     envelope |-> [written |-> FALSE], sent |-> <<>>, sessions |-> 0]

\* the CrawlerGUI after construction (gui.py 63-64, 165-168): Start enabled,
\* Stop disabled, no crawler thread, the stop event clear
NoGui ==
    [main |-> "idle", start_button |-> "normal", stop_button |-> "disabled",
     stop_event |-> FALSE, stop_run |-> 0, crawler_thread |-> 0, threads |-> <<>>,
     pending |-> 0]

\* no profile directory, no delete_profile call made
NoDisk ==
    [exists |-> FALSE, entries |-> {},
     call |-> [made |-> FALSE, returned |-> FALSE,
               before |-> [exists |-> FALSE, entries |-> {}]]]

\* no discovery call has been made
NoCall ==
    /\ INTERACTION_KEYWORDS = BuiltinKeywords
    /\ similarity_threshold = DefaultThreshold
    /\ fault = NoFault
    /\ found_from = <<>>
    /\ raised = FALSE
    /\ calls = [t \in Thresholds |-> NotCalled]
    /\ verdict = "none"
    /\ crawl = NoCrawl
    /\ gui = NoGui
    /\ disk = NoDisk

(***************************************************************************)
(* Specification SpecDedup: _deduplicate_elements applied to a raw list    *)
(* drawn from a pool of records the finder can build.                      *)
(***************************************************************************)
PoolXpaths == { <<"/html/body", "/", "button", "[", "1", "]">>,
                <<"//*[@id=\"", "a", "\"]">>,
                Unknown }
PoolTypes == { "keyword_match", "selector_match" }

RecordPool ==
    { ElementInfo(<<"x">>, <<"button">>, EmptyStr, EmptyStr, EmptyStr, EmptyStr,
                  <<"<button>">>, xp, <<"html", " > ", "body", " > ", "button">>,
                  <<"t">>, ty) : xp \in PoolXpaths, ty \in PoolTypes }
    \cup { ErrorInfo(<<"stale">>, <<"t">>, ty) : ty \in PoolTypes }

RawLists == UNION { [1..n -> RecordPool] : n \in 0..MaxRaw }

DedupInit ==
    /\ dom = EmptyDom
    /\ located = NotLocated
    /\ NoCall
    /\ found_elements \in RawLists
    /\ unique_elements = <<>>
    /\ phase = "raw"

DedupCall ==
    /\ phase = "raw"
    /\ unique_elements' = _deduplicate_elements(found_elements)
    /\ phase' = "deduplicated"
    /\ UNCHANGED <<dom, located, found_elements, callVars>>

\* _deduplicate_elements applied to the list it returned
DedupAgain ==
    /\ phase = "deduplicated"
    /\ unique_elements' = _deduplicate_elements(unique_elements)
    /\ phase' = "deduplicated_twice"
    /\ UNCHANGED <<dom, located, found_elements, callVars>>

DedupNext == DedupCall \/ DedupAgain

SpecDedup == DedupInit /\ [][DedupNext]_vars

(***************************************************************************)
(* Specification SpecLocator: the two locator scripts applied to an        *)
(* element of a page drawn from all pages with up to MaxNodes elements     *)
(* below <body>, and the locators fed back to the driver on the same page. *)
(***************************************************************************)
LocTags == { "div", "span" }
LocIds == { EmptyStr, <<"a">> }

LocatorDoms ==
    UNION { { [n |-> BodyNode + k,
               parent |-> BaseParent @@ par,
               tag |-> BaseTag @@ tg,
               id |-> BaseId @@ idf,
               attr |-> [m \in 1..(BodyNode + k) |-> DefaultAttr]] :
                 par \in ParentMaps(k),
                 tg \in [(BodyNode + 1)..(BodyNode + k) -> LocTags],
                 idf \in [(BodyNode + 1)..(BodyNode + k) -> LocIds] }
            : k \in 0..MaxNodes }

LocInit ==
    /\ dom \in LocatorDoms
    /\ located = NotLocated
    /\ NoCall
    /\ found_elements = <<>>
    /\ unique_elements = <<>>
    /\ phase = "page"

\* synthesize both locators of element m, then re-query the unchanged page
Locate(m) ==
    /\ phase = "page"
    /\ LET xp == _generate_xpath(dom, m)
           css == _generate_css_selector(dom, m)
       IN located' = [node |-> m, element_xpath |-> xp, element_css |-> css,
                      by_xpath |-> find_elements_by_xpath(dom, xp),
                      by_css |-> find_elements_by_css(dom, css)]
    /\ phase' = "located"
    /\ UNCHANGED <<dom, found_elements, unique_elements, callVars>>

LocNext == \E m \in Elements(dom) : Locate(m)

SpecLocator == LocInit /\ [][LocNext]_vars

\* C8: on a page with unique ids, a structural locator other than "Unknown"
\* selects, on the same unchanged page, exactly one element: the original.
C8_XPathRoundTrip ==
    (phase = "located" /\ UniqueIds(dom) /\ located.element_xpath # Unknown) =>
        located.by_xpath = {located.node}

\* C9: on a page with unique ids, a CSS locator other than "Unknown" selects,
\* on the same unchanged page, exactly one element: the original (also when a
\* level is a first-of-its-tag sibling written without :nth-of-type and later
\* siblings of the same tag exist).
C9_CssRoundTrip ==
    (phase = "located" /\ UniqueIds(dom) /\ located.element_css # Unknown) =>
        located.by_css = {located.node}

(***************************************************************************)
(* Specification SpecDiscover: one find_interaction_elements call of a     *)
(* finder with the default threshold and the built-in catalog, on a page   *)
(* with up to MaxElems elements below <body>, each of one of the kinds     *)
(* below, under every driver failure of Faults.                            *)
(***************************************************************************)
DiscoveryDoms ==
    UNION { { [n |-> BodyNode + k,
               parent |-> BaseParent @@ par,
               tag |-> BaseTag @@ [m \in DOMAIN kind |-> kind[m].tag],
               id |-> BaseId @@ [m \in DOMAIN kind |-> kind[m].id],
               attr |-> [m \in 1..BodyNode |-> DefaultAttr]
                            @@ [m \in DOMAIN kind |-> kind[m].attr]] :
                 par \in ParentMaps(k),
                 kind \in [(BodyNode + 1)..(BodyNode + k) -> ElementKinds] }
            : k \in 0..MaxElems }

ElementOps == { "is_displayed", "get_attribute", "xpath_script", "css_script" }

Faults ==
    {NoFault}
    \cup { [op |-> "find_elements", strategy |-> 1, index |-> k] :
               k \in 1..Len(BuiltinKeywords) }
    \cup { [op |-> "find_elements", strategy |-> 2, index |-> k] :
               k \in 1..Len(ELEMENT_SELECTORS) }
    \cup { [op |-> "find_elements", strategy |-> st, index |-> 1] : st \in {3, 4} }
    \cup { [op |-> "find_element", strategy |-> 4, index |-> 0] }
    \cup { [op |-> o, strategy |-> st, index |-> 0] : o \in ElementOps, st \in Strategies }

DiscoverInit ==
    /\ dom \in DiscoveryDoms
    /\ located = NotLocated
    /\ NoCall
    /\ found_elements = <<>>
    /\ unique_elements = <<>>
    /\ phase = "page"

\* self.element_finder.find_interaction_elements(self.driver), meeting fault f
Find(f) ==
    /\ phase = "page"
    /\ \E r \in { find_interaction_elements(dom, INTERACTION_KEYWORDS,
                                            similarity_threshold, f) } :
          /\ found_elements' = Infos(r.cands)
          /\ found_from' = Origins(r.cands)
          /\ unique_elements' = r.result
          /\ raised' = r.raised
          /\ phase' = IF r.raised THEN "raised" ELSE "returned"
    /\ fault' = f
    /\ UNCHANGED <<dom, INTERACTION_KEYWORDS, similarity_threshold, located, calls, verdict,
                   crawl, gui, disk>>

DiscoverNext == \E f \in Faults : Find(f)

SpecDiscover == DiscoverInit /\ [][DiscoverNext]_vars

XpathOf(r) == Get(r, "element_xpath", EmptyStr)

\* the index of the earliest record of the list with the locator xp
FirstIndexOf(elems, xp) ==
    CHOOSE j \in 1..Len(elems) :
        /\ XpathOf(elems[j]) = xp
        /\ \A i \in 1..(j - 1) : XpathOf(elems[i]) # xp

(***************************************************************************)
(* Specification SpecRuns: repeated crawls of one unchanging page.  A GUI  *)
(* run (gui.py 474-516) builds a finder with the chosen threshold, extends *)
(* the catalog with the run's custom keywords and crawls the page; a       *)
(* finder is identified by its only instance state, the threshold.  No     *)
(* driver failure occurs.  calls[t] keeps what the first and the latest    *)
(* discovery of a finder with threshold t returned.                        *)
(***************************************************************************)
RunDoms == { d \in DiscoveryDoms : d.n <= BodyNode + MaxRunElems }

\* what get_custom_keywords can return (gui.py 420-425)
CustomChoices == { <<>>, <<W_zap>> }

\* element_finder.INTERACTION_KEYWORDS.extend(custom_keywords): the list
\* extended is the class attribute, shared by every finder (gui.py 481-483)
ExtendCatalog(catalog, custom_keywords) ==
    IF custom_keywords # <<>> THEN catalog \o custom_keywords ELSE catalog

\* the outcome of a discovery, as kept in calls
Summary(keywords, r) ==
    [catalog |-> keywords,
     result |-> r.result,
     nodes |-> [i \in 1..Len(r.result) |->
                   r.cands[FirstIndexOf(Infos(r.cands), XpathOf(r.result[i]))].node],
     accepted |-> { r.cands[k].node : k \in 1..Len(r.cands) }]

Outcome(d, keywords, threshold) ==
    Summary(keywords, find_interaction_elements(d, keywords, threshold, NoFault))

Record(c, o) ==
    IF c.called THEN [c EXCEPT !.last = o]
    ELSE [called |-> TRUE, first |-> o, last |-> o]

RunsInit ==
    /\ dom \in RunDoms
    /\ located = NotLocated
    /\ NoCall
    /\ found_elements = <<>>
    /\ unique_elements = <<>>
    /\ phase = "page"

\* CrawlerGUI.run_crawler with the settings (threshold, custom keywords)
run_crawler(threshold, custom_keywords) ==
    /\ Len(INTERACTION_KEYWORDS) + Len(custom_keywords)
           <= Len(BuiltinKeywords) + MaxCustom
    /\ \E catalog \in { ExtendCatalog(INTERACTION_KEYWORDS, custom_keywords) } :
       \E o \in { Outcome(dom, catalog, threshold) } :
          /\ INTERACTION_KEYWORDS' = catalog
          /\ calls' = [calls EXCEPT ![threshold] = Record(calls[threshold], o)]
    /\ similarity_threshold' = threshold
    /\ UNCHANGED <<dom, fault, found_elements, found_from, unique_elements, raised, verdict,
                   crawl, gui, disk,
                   located, phase>>

RunsNext ==
    \E t \in Thresholds, kws \in CustomChoices : run_crawler(t, kws)

SpecRuns == RunsInit /\ [][RunsNext]_vars

(***************************************************************************)
(* Specification SpecScorer: _is_likely_interaction_element applied to one *)
(* element, drawn with every combination of the attributes the scorer      *)
(* reads, under the catalogs and thresholds of the model, the element      *)
(* being either live or stale (an access to it raising).                   *)
(***************************************************************************)
RECURSIVE Repeat(_, _)
Repeat(s, n) == IF n = 0 THEN <<>> ELSE s \o Repeat(s, n - 1)

W_liked == <<"L", "i", "k", "e", "d">>
W_link == <<"l", "i", "n", "k">>

Sentence == <<"i", " ">> \o W_like \o <<" ", "i", "t", ".">>

\* a long text in which the keyword "like" occurs LongCopies + 1 times
LongText == Sentence \o Repeat(<<" ">> \o Sentence, LongCopies)

ScorerTexts == { EmptyStr, W_like, W_liked, W_zap, LongText }

ScorerKinds ==
    { [tag |-> tg, id |-> EmptyStr,
       attr |-> [DefaultAttr EXCEPT !.text = tx, !.class = cl, !.role = ro,
                                    !.displayed = di, !.enabled = en]] :
        tg \in {"button", "span"}, tx \in ScorerTexts,
        cl \in {EmptyStr, <<"B", "T", "N">>}, ro \in {EmptyStr, W_link},
        di \in BOOLEAN, en \in BOOLEAN }

\* the element the scorer is given: the only element below <body>
ScoredNode == BodyNode + 1

ScorerDoms ==
    { [n |-> ScoredNode,
       parent |-> BaseParent @@ (ScoredNode :> BodyNode),
       tag |-> BaseTag @@ (ScoredNode :> kind.tag),
       id |-> BaseId @@ (ScoredNode :> kind.id),
       attr |-> [m \in 1..BodyNode |-> DefaultAttr] @@ (ScoredNode :> kind.attr)] :
         kind \in ScorerKinds }

\* the catalogs the runs of the model leave behind
ScorerCatalogs == { ExtendCatalog(BuiltinKeywords, kws) : kws \in CustomChoices }

ScorerInit ==
    /\ dom \in ScorerDoms
    /\ INTERACTION_KEYWORDS \in ScorerCatalogs
    /\ similarity_threshold \in Thresholds
    /\ fault \in { NoFault, [op |-> "is_displayed", strategy |-> 1, index |-> 0] }
    /\ found_from = <<>>
    /\ raised = FALSE
    /\ calls = [t \in Thresholds |-> NotCalled]
    /\ verdict = "none"
    /\ crawl = NoCrawl
    /\ gui = NoGui
    /\ disk = NoDisk
    /\ located = NotLocated
    /\ found_elements = <<>>
    /\ unique_elements = <<>>
    /\ phase = "page"

\* self._is_likely_interaction_element(element)
Score ==
    /\ phase = "page"
    /\ verdict' = IF _is_likely_interaction_element(dom, ScoredNode, INTERACTION_KEYWORDS,
                                                    similarity_threshold,
                                                    Fails(fault, "is_displayed", 1, 0))
                  THEN "accepted" ELSE "rejected"
    /\ phase' = "scored"
    /\ UNCHANGED <<dom, INTERACTION_KEYWORDS, similarity_threshold, fault, found_from,
                   raised, calls, located, found_elements, unique_elements, crawl,
                   gui, disk>>

ScorerNext == Score

SpecScorer == ScorerInit /\ [][ScorerNext]_vars

(***************************************************************************)
(* Specification SpecCrawl: WebCrawler.process_csv working through the     *)
(* rows of one URL column (web_crawler.py 82-306), with the stop event     *)
(* set at any moment by another thread.  A position of crawl.pc is either  *)
(* a poll of the stop event or a page step about to run; every driver or   *)
(* file operation can fail.  crawl.done holds the page steps performed per *)
(* row, crawl.late those performed while the stop event was set.           *)
(***************************************************************************)
\* the rows of the column: TRUE for a string starting with http:// or https://
Csvs == UNION { [1..n -> BOOLEAN] : n \in 0..MaxUrls }

finderVars == <<dom, located, found_elements, unique_elements, phase, INTERACTION_KEYWORDS,
                similarity_threshold, fault, found_from, raised, calls, verdict, gui, disk>>

\* the locators a returned record can carry: a path or selector the scripts
\* computed, or the placeholder of _create_element_info (lines 145-154)
PageXpaths == PoolXpaths
PageCss == { <<"html", " > ", "body", " > ", "button">>, Unknown }

PageRecords ==
    { ElementInfo(<<"x">>, <<"button">>, EmptyStr, EmptyStr, EmptyStr, EmptyStr,
                  <<"<button>">>, xp, css, <<"like">>, "keyword_match") :
          xp \in PageXpaths, css \in PageCss }

\* what find_interaction_elements can return for a page: a deduplicated list
PageOutputs ==
    { out \in UNION { [1..n -> PageRecords] : n \in 0..MaxFound } :
          _deduplicate_elements(out) = out }

\* the local state of process_url, gone when it returns
LeavePage(c) ==
    [c EXCEPT !.interaction_elements = <<>>, !.envelope = [written |-> FALSE],
              !.sent = <<>>]

\* the report envelope built by _save_elements (lines 241-246)
Envelope(row, elements) ==
    [written |-> TRUE, url |-> row, elements_count |-> Len(elements),
     elements |-> elements]

\* the record passed to _click_element: the last one (a mutation)
ClickTarget_Last(elements) == elements[Len(elements)]

\* interaction_elements[0] (line 187)
ClickTarget(elements) == elements[1]

\* the placeholder sent to the driver like any locator (a mutation)
Sendable_Placeholder(locator) == Truthy(locator)

\* `xpath and xpath != "Unknown"` (lines 277 and 293)
Sendable(locator) == Truthy(locator) /\ locator # Unknown

\* a page step of the current row runs
Performed(c, kind) ==
    [c EXCEPT !.done = @ \cup {<<c.row, kind>>},
              !.late = IF c.stop THEN @ \cup {<<c.row, kind>>} ELSE @]

\* one find_element and click through the driver, recorded
Sent(c, by, locator, clicked) ==
    [Performed(c, "click") EXCEPT
         !.sent = Append(@, [by |-> by, locator |-> locator, clicked |-> clicked]),
         !.clicks = IF clicked THEN @ \cup {c.row} ELSE @]

\* the stop event never seen set (a mutation: the crawler built without it)
StopRequested_Never(c) == FALSE

\* self.stop_event and self.stop_event.is_set()
StopRequested(c) == c.stop

\* an exception leaves process_url and is caught by process_csv (lines 137-138)
Aborted(c) == [c EXCEPT !.pc = "returned", !.aborted = TRUE]

\* the timeout handler letting the exception through (a mutation)
OnTimeout_Propagates(c) == Aborted([c EXCEPT !.timed_out = @ \cup {c.row}])

\* except TimeoutException: print and return (lines 191-192)
OnTimeout(c) == [c EXCEPT !.timed_out = @ \cup {c.row}, !.pc = "delay"]

\* except Exception: print and return (lines 193-194)
OnError(c) == [c EXCEPT !.failed = @ \cup {c.row}, !.pc = "delay"]

CrawlInit ==
    /\ dom = EmptyDom
    /\ located = NotLocated
    /\ INTERACTION_KEYWORDS = BuiltinKeywords
    /\ similarity_threshold = DefaultThreshold
    /\ fault = NoFault
    /\ found_from = <<>>
    /\ raised = FALSE
    /\ calls = [t \in Thresholds |-> NotCalled]
    /\ verdict = "none"
    /\ found_elements = <<>>
    /\ unique_elements = <<>>
    /\ phase = "batch"
    /\ crawl \in { [NoCrawl EXCEPT !.csv = u, !.pc = "loop"] : u \in Csvs }
    /\ gui = NoGui
    /\ disk = NoDisk

\* the GUI's Stop button: self.stop_event.set() (gui.py, stop_crawler)
SetStop ==
    /\ crawl.pc \notin {"idle", "returned", "closed"}
    /\ ~crawl.stop
    /\ crawl' = [crawl EXCEPT !.stop = TRUE]
    /\ UNCHANGED finderVars

\* process_csv, top of the row loop (lines 116-125)
NextRow ==
    /\ crawl.pc = "loop"
    /\ crawl' = IF crawl.row > Len(crawl.csv) THEN [crawl EXCEPT !.pc = "returned"]
                ELSE IF StopRequested(crawl) THEN [crawl EXCEPT !.pc = "returned"]
                ELSE IF ~crawl.csv[crawl.row] THEN [crawl EXCEPT !.row = @ + 1]
                ELSE [crawl EXCEPT !.pc = "process_url",
                                   !.attempted = @ \cup {crawl.row}]
    /\ UNCHANGED finderVars

\* process_url, entry (lines 147-152)
EnterUrl ==
    /\ crawl.pc = "process_url"
    /\ crawl' = IF StopRequested(crawl)
                THEN [crawl EXCEPT !.pc = "delay",
                                   !.began_stopped =
                                       IF crawl.stop THEN @ \cup {crawl.row} ELSE @]
                ELSE IF ~crawl.driver THEN [crawl EXCEPT !.pc = "setup", !.k = 0]
                ELSE [crawl EXCEPT !.pc = "load", !.k = 0]
    /\ UNCHANGED finderVars

\* setup_driver (lines 55-74), called outside the try block of process_url
SetupDriver ==
    /\ crawl.pc = "setup"
    /\ \E outcome \in {"ok", "no_session", "session_then_error"} :
          crawl' = LET c == Performed(crawl, "setup")
                   IN CASE outcome = "ok" ->
                                [c EXCEPT !.driver = TRUE, !.sessions = @ + 1, !.pc = "load"]
                        [] outcome = "no_session" -> Aborted(c)
                        [] OTHER -> Aborted([c EXCEPT !.driver = TRUE, !.sessions = @ + 1])
    /\ UNCHANGED finderVars

\* driver.get(url) and the wait for <body> (lines 156-161)
LoadPage ==
    /\ crawl.pc = "load"
    /\ \E outcome \in {"ok", "timeout", "error"} :
          crawl' = LET c == Performed(crawl, "load")
                   IN CASE outcome = "ok" -> [c EXCEPT !.pc = "poll_loaded"]
                        [] outcome = "timeout" -> OnTimeout(c)
                        [] OTHER -> OnError(c)
    /\ UNCHANGED finderVars

\* the polls of process_url between its steps (lines 164, 171, 182 and 271)
PollBetweenSteps ==
    /\ crawl.pc \in {"poll_loaded", "poll_scrolled", "poll_saved"}
    /\ crawl' = IF StopRequested(crawl) THEN [crawl EXCEPT !.pc = "delay"]
                ELSE [crawl EXCEPT !.pc = CASE crawl.pc = "poll_loaded" -> "scroll_loop"
                                            [] crawl.pc = "poll_scrolled" -> "discover"
                                            [] OTHER -> "click_xpath"]
    /\ UNCHANGED finderVars

\* _scroll_page, top of the loop (lines 203-206)
ScrollLoop ==
    /\ crawl.pc = "scroll_loop"
    /\ crawl' = IF crawl.k >= scroll_count THEN [crawl EXCEPT !.pc = "scroll_top"]
                ELSE IF StopRequested(crawl) THEN [crawl EXCEPT !.pc = "poll_scrolled"]
                ELSE [crawl EXCEPT !.pc = "scroll_bottom"]
    /\ UNCHANGED finderVars

\* one scroll-to-bottom iteration (lines 208-215)
ScrollBottom ==
    /\ crawl.pc = "scroll_bottom"
    /\ \E outcome \in {"grew", "same_height", "error"} :
          crawl' = LET c == [Performed(crawl, "scroll") EXCEPT
                                !.late_scrolls = IF crawl.stop THEN @ + 1 ELSE @]
                   IN CASE outcome = "grew" -> [c EXCEPT !.k = @ + 1, !.pc = "scroll_loop"]
                        [] outcome = "same_height" -> [c EXCEPT !.pc = "scroll_top"]
                        [] OTHER -> [c EXCEPT !.pc = "poll_scrolled"]
    /\ UNCHANGED finderVars

\* the scroll back to the top (lines 218-221)
ScrollTop ==
    /\ crawl.pc = "scroll_top"
    /\ crawl' = [Performed(crawl, "scroll") EXCEPT !.pc = "poll_scrolled"]
    /\ UNCHANGED finderVars

\* find_interaction_elements and the test of its result (lines 175-189)
Discover ==
    /\ crawl.pc = "discover"
    /\ \/ \E out \in PageOutputs :
             crawl' = [Performed(crawl, "discover") EXCEPT
                           !.interaction_elements = out,
                           !.discovered = @ \cup {crawl.row},
                           !.pc = IF out # <<>> THEN "save" ELSE "delay"]
       \/ crawl' = OnError(Performed(crawl, "discover"))
    /\ UNCHANGED finderVars

\* _save_elements (lines 223-260): failures are caught inside
Save ==
    /\ crawl.pc = "save"
    /\ \E outcome \in {"ok", "no_screenshot", "error"} :
          crawl' = LET c == [Performed(crawl, "save") EXCEPT
                                !.save_calls = Append(@, crawl.row),
                                !.pc = "poll_saved"]
                   IN IF outcome = "error" THEN c
                      ELSE [c EXCEPT !.reports = @ \cup {c.row},
                                     !.envelope = Envelope(c.row, c.interaction_elements)]
    /\ UNCHANGED finderVars

\* _click_element, the attempt by XPath (lines 276-285)
ClickXpath ==
    /\ crawl.pc = "click_xpath"
    /\ LET xpath == Get(ClickTarget(crawl.interaction_elements), "element_xpath", EmptyStr)
       IN IF Sendable(xpath)
          THEN \E clicked \in BOOLEAN :
                  crawl' = [Sent(crawl, "xpath", xpath, clicked) EXCEPT
                                !.pc = IF clicked THEN "delay" ELSE "poll_css"]
          ELSE crawl' = [crawl EXCEPT !.pc = "poll_css"]
    /\ UNCHANGED finderVars

\* _click_element, the poll before the attempt by CSS (lines 288-289)
PollCss ==
    /\ crawl.pc = "poll_css"
    /\ crawl' = IF StopRequested(crawl) THEN [crawl EXCEPT !.pc = "delay"]
                ELSE [crawl EXCEPT !.pc = "click_css"]
    /\ UNCHANGED finderVars

\* _click_element, the attempt by CSS selector (lines 292-303)
ClickCss ==
    /\ crawl.pc = "click_css"
    /\ LET css == Get(ClickTarget(crawl.interaction_elements), "element_css", EmptyStr)
       IN IF Sendable(css)
          THEN \E clicked \in BOOLEAN :
                  crawl' = [Sent(crawl, "css", css, clicked) EXCEPT !.pc = "delay"]
          ELSE crawl' = [crawl EXCEPT !.pc = "delay"]
    /\ UNCHANGED finderVars

\* the delay between URLs, then the next row (lines 128-135)
Delay ==
    /\ crawl.pc = "delay"
    /\ crawl' = [LeavePage(crawl) EXCEPT !.row = @ + 1, !.pc = "loop"]
    /\ UNCHANGED finderVars

\* close_driver dropping the reference without quitting (a mutation)
CloseDriver_KeepsSession ==
    /\ crawl.pc = "returned"
    /\ crawl' = [crawl EXCEPT !.driver = FALSE, !.pc = "closed"]
    /\ UNCHANGED finderVars

\* crawler.close_driver() once process_csv has returned (main.py 25-26,
\* gui.py 504): lines 76-80
CloseDriver ==
    /\ crawl.pc = "returned"
    /\ crawl' = IF crawl.driver
                THEN [crawl EXCEPT !.driver = FALSE, !.sessions = @ - 1, !.pc = "closed"]
                ELSE [crawl EXCEPT !.pc = "closed"]
    /\ UNCHANGED finderVars

CrawlNext ==
    \/ SetStop \/ NextRow \/ EnterUrl \/ SetupDriver \/ LoadPage \/ PollBetweenSteps
    \/ ScrollLoop \/ ScrollBottom \/ ScrollTop \/ Discover \/ Save
    \/ ClickXpath \/ PollCss \/ ClickCss \/ Delay \/ CloseDriver

SpecCrawl == CrawlInit /\ [][CrawlNext]_vars

\* C1: the list returned by deduplication never holds two records with the
\* same structural locator; every non-empty locator of the raw list is kept
\* exactly once, and the record kept for it is, field for field, the earliest
\* raw record with that locator (a later duplicate is dropped, not merged).
C1_FirstSeenWins ==
    phase = "deduplicated" =>
        /\ \A i, j \in 1..Len(unique_elements) :
              XpathOf(unique_elements[i]) = XpathOf(unique_elements[j]) => i = j
        /\ \A i \in 1..Len(unique_elements) :
              /\ \E j \in 1..Len(found_elements) :
                    XpathOf(found_elements[j]) = XpathOf(unique_elements[i])
              /\ unique_elements[i] =
                    found_elements[FirstIndexOf(found_elements,
                                                XpathOf(unique_elements[i]))]
        /\ \A j \in 1..Len(found_elements) :
              Truthy(XpathOf(found_elements[j])) =>
                  \E i \in 1..Len(unique_elements) :
                      XpathOf(unique_elements[i]) = XpathOf(found_elements[j])

\* a raw list in which a later record repeats the locator of an earlier,
\* different record, after deduplication
C1_Witness ==
    /\ phase = "deduplicated"
    /\ \E i, j \in 1..Len(found_elements) :
          /\ i < j
          /\ Truthy(XpathOf(found_elements[i]))
          /\ XpathOf(found_elements[i]) = XpathOf(found_elements[j])
          /\ found_elements[i] # found_elements[j]
    /\ Len(unique_elements) >= 2

CountUnknown(elems) ==
    Cardinality({ i \in 1..Len(elems) : XpathOf(elems[i]) = Unknown })

\* C2: records whose structural locator is the placeholder "Unknown" are
\* never deduplicated against each other: all k of them are in the output.
C2_UnknownAllKept ==
    phase = "deduplicated" =>
        CountUnknown(unique_elements) = CountUnknown(found_elements)

\* C11: deduplicating an already deduplicated list returns it unchanged,
\* the same records in the same order.
C11_DedupIdempotent ==
    [][DedupAgain => unique_elements' = unique_elements]_vars

\* a raw list with a repeated locator, deduplicated twice, of which two
\* records remain
C11_Witness ==
    /\ phase = "deduplicated_twice"
    /\ Len(unique_elements) >= 2
    /\ Len(found_elements) > Len(unique_elements)
    /\ \E i, j \in 1..Len(found_elements) :
           i # j /\ Truthy(XpathOf(found_elements[i]))
                 /\ XpathOf(found_elements[i]) = XpathOf(found_elements[j])

(***************************************************************************)
(* Properties of one discovery call (SpecDiscover).                        *)
(***************************************************************************)
Ended == phase \in {"returned", "raised"}

\* the raw candidates built from element m
CandidatesOf(m) == { j \in 1..Len(found_from) : found_from[j].node = m }

\* the element the i-th returned record was built from: the returned record
\* is the earliest raw candidate with its locator (C1)
NodeOfOutput(i) ==
    found_from[FirstIndexOf(found_elements, XpathOf(unique_elements[i]))].node

StrategyOfOutput(i) ==
    found_from[FirstIndexOf(found_elements, XpathOf(unique_elements[i]))].strategy

OutputsOf(m) == { i \in 1..Len(unique_elements) : NodeOfOutput(i) = m }

\* C3: a failure inside one strategy does not abort the call: the call does
\* not raise, and every strategy other than the failing one contributes the
\* candidates it contributes when nothing fails.
C3_FailureDoesNotAbort ==
    (Ended /\ fault.op \in {"find_elements", "find_element"}) =>
        /\ ~raised
        /\ LET clean == find_interaction_elements(dom, INTERACTION_KEYWORDS,
                                                  similarity_threshold, NoFault).cands
           IN \A k \in 1..Len(clean) :
                  clean[k].strategy # fault.strategy =>
                      \E j \in 1..Len(found_elements) :
                          /\ found_elements[j] = clean[k].info
                          /\ found_from[j].node = clean[k].node

\* the tag and the query of the strategy a candidate came from
ProducedBy(info, node, strategy) ==
    /\ "match_type" \in DOMAIN info
    /\ "match_term" \in DOMAIN info
    /\ strategy = 1 =>
           /\ info.match_type = "keyword_match"
           /\ \E k \in 1..Len(INTERACTION_KEYWORDS) :
                  /\ info.match_term = INTERACTION_KEYWORDS[k]
                  /\ \E h \in 1..Len(KeywordQuery(dom, INTERACTION_KEYWORDS[k])) :
                         KeywordQuery(dom, INTERACTION_KEYWORDS[k])[h] = node
    /\ strategy = 2 =>
           /\ info.match_type = "selector_match"
           /\ \E k \in 1..Len(ELEMENT_SELECTORS) :
                  /\ info.match_term = SelectorText(ELEMENT_SELECTORS[k])
                  /\ \E h \in 1..Len(SelectorQuery(dom, ELEMENT_SELECTORS[k])) :
                         SelectorQuery(dom, ELEMENT_SELECTORS[k])[h] = node
    /\ strategy = 3 =>
           /\ info.match_type = "svg_match"
           /\ \E h \in 1..Len(SvgQuery(dom)) : SvgQuery(dom)[h] = node
    /\ strategy = 4 =>
           /\ info.match_type = "counter_match"
           /\ \E h \in 1..Len(CounterQuery(dom)) : dom.parent[CounterQuery(dom)[h]] = node

\* C6: every returned record carries a match_type that is one of the four
\* tags and names the strategy whose query produced the record; so does every
\* raw candidate, the records of the error-fallback path included.
C6_MatchTypeNamesStrategy ==
    Ended =>
        /\ \A i \in 1..Len(unique_elements) :
               /\ unique_elements[i].match_type \in
                      {"keyword_match", "selector_match", "svg_match", "counter_match"}
               /\ ProducedBy(unique_elements[i], NodeOfOutput(i), StrategyOfOutput(i))
        /\ \A j \in 1..Len(found_elements) :
               ProducedBy(found_elements[j], found_from[j].node, found_from[j].strategy)

\* a call that returned a record while the candidates of an earlier strategy
\* went through the error-fallback path of _create_element_info
C6_Witness ==
    /\ phase = "returned"
    /\ \E j \in 1..Len(found_elements) :
           /\ "error" \in DOMAIN found_elements[j]
           /\ \E i \in 1..Len(unique_elements) :
                  /\ NodeOfOutput(i) = found_from[j].node
                  /\ StrategyOfOutput(i) > found_from[j].strategy

\* the eleven keys of a full record
RecordKeys ==
    { "element_text", "element_tag", "element_class", "element_id",
      "element_aria_label", "element_title", "element_html", "element_xpath",
      "element_css", "match_term", "match_type" }

\* the fields of the record of element m other than the two locators, as
\* they are on the page
PlainFields(info, m) ==
    /\ info.element_text = Strip(dom.attr[m].text)
    /\ info.element_tag = <<dom.tag[m]>>
    /\ info.element_class = dom.attr[m].class
    /\ info.element_id = dom.id[m]
    /\ info.element_aria_label = dom.attr[m].aria_label
    /\ info.element_title = dom.attr[m].title
    /\ info.element_html = OuterHTML(dom, m)

\* C12: when the structural-locator script raises for a candidate, its record
\* is a full record with element_xpath = "Unknown" and every other field,
\* element_css included, as normally computed; when the CSS-locator script
\* raises, only element_css is "Unknown"; the call does not raise and no
\* error record is built.
C12_LocatorFailuresIndependent ==
    (Ended /\ fault.op \in {"xpath_script", "css_script"}) =>
        /\ ~raised
        /\ \A j \in 1..Len(found_elements) :
               LET info == found_elements[j]
                   m == found_from[j].node
                   hit == found_from[j].strategy = fault.strategy
               IN /\ DOMAIN info = RecordKeys
                  /\ PlainFields(info, m)
                  /\ info.element_xpath =
                         IF hit /\ fault.op = "xpath_script"
                         THEN Unknown ELSE _generate_xpath(dom, m)
                  /\ info.element_css =
                         IF hit /\ fault.op = "css_script"
                         THEN Unknown ELSE _generate_css_selector(dom, m)

\* a call in which the structural-locator script raised for a candidate
\* whose record was then returned
C12_Witness ==
    /\ phase = "returned"
    /\ fault.op = "xpath_script"
    /\ \E j \in 1..Len(found_elements) : found_from[j].strategy = fault.strategy
    /\ \E i \in 1..Len(unique_elements) :
           /\ unique_elements[i].element_xpath = Unknown
           /\ unique_elements[i].element_css # Unknown

\* C16: every returned record has exactly the eleven keys of a full record,
\* also in a call in which attribute extraction failed for some candidate.
C16_ElevenKeys ==
    phase = "returned" =>
        \A i \in 1..Len(unique_elements) : DOMAIN unique_elements[i] = RecordKeys

\* a call that returned records although attribute extraction failed for the
\* candidates of one strategy
C16_Witness ==
    /\ phase = "returned"
    /\ fault.op = "get_attribute"
    /\ \E j \in 1..Len(found_elements) : DOMAIN found_elements[j] # RecordKeys
    /\ Len(unique_elements) >= 1

FirstCandidateOf(m) == CHOOSE j \in CandidatesOf(m) : \A k \in CandidatesOf(m) : j <= k

OneRecordFirstMatch(m) ==
    /\ Cardinality(OutputsOf(m)) = 1
    /\ \A i \in OutputsOf(m) :
           /\ unique_elements[i].match_type = found_elements[FirstCandidateOf(m)].match_type
           /\ unique_elements[i].match_term = found_elements[FirstCandidateOf(m)].match_term

\* C7 as stated: an element found and accepted by two or more matches has
\* exactly one returned record, carrying the first match's type and term.
C7_OneRecordPerElement ==
    phase = "returned" =>
        \A m \in Elements(dom) :
            Cardinality(CandidatesOf(m)) >= 2 => OneRecordFirstMatch(m)

HasLocator(info) == XpathOf(info) \notin {EmptyStr, Unknown}

\* the raw candidates of element m whose record carries a computed locator
LocatedCandidatesOf(m) == { j \in CandidatesOf(m) : HasLocator(found_elements[j]) }

FirstLocatedCandidateOf(m) ==
    CHOOSE j \in LocatedCandidatesOf(m) : \A k \in LocatedCandidatesOf(m) : j <= k

\* C7 as amended: on a page whose ids are unique, an element matched two or
\* more times with a computed structural locator has exactly one returned
\* record with that locator, carrying the type and term of the first of
\* those matches in strategy order.
C7_OneRecordPerElement_UniqueIds ==
    (phase = "returned" /\ UniqueIds(dom)) =>
        \A m \in Elements(dom) :
            Cardinality(LocatedCandidatesOf(m)) >= 2 =>
                LET outs == { i \in OutputsOf(m) : HasLocator(unique_elements[i]) }
                    first == found_elements[FirstLocatedCandidateOf(m)]
                IN /\ Cardinality(outs) = 1
                   /\ \A i \in outs :
                          /\ unique_elements[i].match_type = first.match_type
                          /\ unique_elements[i].match_term = first.match_term

\* an element matched by two different strategies on a page with unique ids
C7_Witness ==
    /\ phase = "returned"
    /\ UniqueIds(dom)
    /\ \E m \in Elements(dom) :
           /\ \E j, k \in LocatedCandidatesOf(m) :
                  found_from[j].strategy # found_from[k].strategy
           /\ Cardinality(OutputsOf(m)) = 1

(***************************************************************************)
(* Properties of repeated crawls of one page (SpecRuns).                   *)
(***************************************************************************)
Called == { t \in Thresholds : calls[t].called }

XpathsOf(result) == { XpathOf(result[i]) : i \in 1..Len(result) }

XpathSeq(result) == [i \in 1..Len(result) |-> XpathOf(result[i])]

\* none of the clickable signals: tag, role, class
NoClickableSignal(d, m) ==
    /\ d.tag[m] \notin {"button", "a", "input"}
    /\ d.attr[m].role \notin { <<"b", "u", "t", "t", "o", "n">>, <<"l", "i", "n", "k">>,
                               <<"c", "h", "e", "c", "k", "b", "o", "x">>,
                               <<"r", "a", "d", "i", "o">> }
    /\ ~Contains(Lower(d.attr[m].class), <<"b", "u", "t", "t", "o", "n">>)
    /\ ~Contains(Lower(d.attr[m].class), <<"b", "t", "n">>)

\* C4: an element with none of the clickable signals is rejected by the
\* scorer under every catalog and threshold, whatever its similarity score,
\* and no discovery has a candidate or a returned record built from it.
C4_ClickabilityGate ==
    \A m \in Elements(dom) :
        NoClickableSignal(dom, m) =>
            /\ \A t \in Thresholds :
                   ~_is_likely_interaction_element(dom, m, INTERACTION_KEYWORDS, t, FALSE)
            /\ \A t \in Called :
                   /\ m \notin calls[t].last.accepted
                   /\ \A i \in 1..Len(calls[t].last.nodes) : calls[t].last.nodes[i] # m

\* a discovery at threshold 0 of a page with a displayed, enabled element
\* whose text is a keyword but which has no clickable signal
C4_Witness ==
    /\ calls[0].called
    /\ \E m \in Elements(dom) :
           /\ NoClickableSignal(dom, m)
           /\ dom.attr[m].displayed /\ dom.attr[m].enabled
           /\ \E k \in 1..Len(INTERACTION_KEYWORDS) :
                  Similarity(INTERACTION_KEYWORDS[k], CombinedText(dom, m)) = 100

\* C5: of two discoveries of the page under the same catalog, the one with
\* the lower threshold returns a superset of the structural locators, and
\* accepts every element the other accepts.
C5_ThresholdMonotone ==
    \A t1, t2 \in Called :
        t1 < t2 =>
            \A o1 \in {calls[t1].first, calls[t1].last},
               o2 \in {calls[t2].first, calls[t2].last} :
                o1.catalog = o2.catalog =>
                    /\ XpathsOf(o2.result) \subseteq XpathsOf(o1.result)
                    /\ o2.accepted \subseteq o1.accepted

\* two discoveries under one catalog of which the lower threshold returns
\* strictly more locators
C5_Witness ==
    \E t1, t2 \in Called :
        /\ t1 < t2
        /\ calls[t1].last.catalog = calls[t2].last.catalog
        /\ XpathsOf(calls[t2].last.result) # XpathsOf(calls[t1].last.result)

\* C10: the first and the latest discovery of the unchanging page by a
\* finder return the same structural locators in the same order, whatever
\* runs happened in between.
C10_Deterministic ==
    \A t \in Called : XpathSeq(calls[t].first.result) = XpathSeq(calls[t].last.result)

\* C20: every run uses the built-in catalog followed by exactly its own
\* extension list: after run_crawler with the custom keywords kws, the
\* catalog the finder reads is BuiltinKeywords \o kws; with no custom
\* keywords it is the built-in catalog.
C20_CatalogIsBuiltinPlusOwn ==
    [][\A t \in Thresholds, kws \in CustomChoices :
           run_crawler(t, kws) => INTERACTION_KEYWORDS' = BuiltinKeywords \o kws]_vars

(***************************************************************************)
(* Properties of the scorer (SpecScorer).                                  *)
(***************************************************************************)
Scored == phase = "scored"

\* the element is visible, enabled and clickable, and no access to it raises
LiveClickable ==
    /\ fault = NoFault
    /\ dom.attr[ScoredNode].displayed
    /\ dom.attr[ScoredNode].enabled
    /\ ~NoClickableSignal(dom, ScoredNode)

\* C13: the scorer returns false whenever the element is not visible, is not
\* enabled, or an access to the (stale) element raises.
C13_ScorerFailsClosed ==
    (/\ Scored
     /\ \/ ~dom.attr[ScoredNode].displayed
        \/ ~dom.attr[ScoredNode].enabled
        \/ fault.op = "is_displayed")
        => verdict = "rejected"

\* a visible but disabled button whose text is a keyword, scored at threshold 0
C13_Witness ==
    /\ Scored
    /\ fault = NoFault
    /\ dom.tag[ScoredNode] = "button"
    /\ dom.attr[ScoredNode].text = W_like
    /\ dom.attr[ScoredNode].displayed
    /\ ~dom.attr[ScoredNode].enabled
    /\ similarity_threshold = 0

\* C14: at threshold 0 and with a non-empty catalog, every visible, enabled,
\* clickable element is accepted, whatever its text and attributes.
C14_ThresholdZeroAcceptsClickable ==
    (Scored /\ LiveClickable /\ similarity_threshold = 0
            /\ Len(INTERACTION_KEYWORDS) > 0)
        => verdict = "accepted"

\* a clickable element without any text (score 0 for every keyword), scored
\* at threshold 0
C14_Witness ==
    /\ Scored /\ LiveClickable /\ similarity_threshold = 0
    /\ dom.attr[ScoredNode].text = EmptyStr
    /\ \A k \in 1..Len(INTERACTION_KEYWORDS) :
           Similarity(INTERACTION_KEYWORDS[k], CombinedText(dom, ScoredNode)) = 0

\* C15: a visible, enabled, clickable element whose combined lowercase text
\* contains the lowercased form of a catalog keyword is accepted at every
\* threshold up to 100.
C15_SubstringTolerance ==
    (/\ Scored /\ LiveClickable
     /\ \E k \in 1..Len(INTERACTION_KEYWORDS) :
            Contains(CombinedText(dom, ScoredNode), Lower(INTERACTION_KEYWORDS[k])))
        => verdict = "accepted"

(***************************************************************************)
(* Properties of a batch (SpecCrawl).                                      *)
(***************************************************************************)
StepKinds == {"setup", "load", "scroll", "discover", "save", "click"}

\* the page steps performed while the stop event was set
LateKinds == { e[2] : e \in crawl.late }

\* no page step for a row whose process_url began with the stop event set,
\* and at most one scroll-to-bottom iteration ran with the event set (the one
\* in progress when it was set)
NoFurtherVisitOrScroll ==
    /\ \A r \in crawl.began_stopped : \A kind \in StepKinds : <<r, kind>> \notin crawl.done
    /\ \A e \in crawl.late : e[1] \in crawl.attempted \ crawl.began_stopped
    /\ Cardinality({ e[1] : e \in crawl.late }) <= 1
    /\ crawl.late_scrolls <= 1

\* C17 as stated: once the stop event is set, no further page visit starts,
\* no further scroll-to-bottom iteration runs, and at most the one page step
\* in progress is performed before process_csv returns.
C17_CooperativeCancellation ==
    /\ NoFurtherVisitOrScroll
    /\ Cardinality(LateKinds) <= 1

\* the stretch between two polls of the stop event a page step belongs to
Stretch(kind) ==
    CASE kind = "setup" -> "load"
      [] kind = "save" -> "discover"
      [] OTHER -> kind

\* C17 as amended: the same, where the creation of the driver together with
\* the page load after it, and discovery together with the save of its
\* report, each count as one step.
C17_CancellationBetweenPolls ==
    /\ NoFurtherVisitOrScroll
    /\ Cardinality({ Stretch(kind) : kind \in LateKinds }) <= 1

\* a batch stopped while a page was being discovered, returned with a valid
\* row left unvisited
C17_Witness ==
    /\ crawl.pc = "returned"
    /\ crawl.stop
    /\ "discover" \in LateKinds
    /\ \E r \in 1..Len(crawl.csv) : crawl.csv[r] /\ r \notin crawl.attempted

\* C18: a URL whose load or wait timed out gets no report and no click, the
\* exception does not leave process_url, and a batch that was not stopped
\* goes on to load every later valid URL.
C18_TimeoutSkipsUrl ==
    \A r \in crawl.timed_out :
        /\ r \notin crawl.reports /\ r \notin crawl.clicks
        /\ <<r, "save">> \notin crawl.done /\ <<r, "click">> \notin crawl.done
        /\ ~crawl.aborted
        /\ (crawl.pc = "returned" /\ ~crawl.stop) =>
               \A q \in (r + 1)..Len(crawl.csv) :
                   crawl.csv[q] => q \in crawl.attempted /\ <<q, "load">> \in crawl.done

\* a finished batch whose first URL timed out and whose second URL got its
\* report
C18_Witness ==
    /\ crawl.pc = "returned"
    /\ ~crawl.stop
    /\ \E r \in crawl.timed_out : \E q \in crawl.reports : r < q

\* C19: whatever failed while a URL was processed, a batch that was not
\* stopped has attempted every valid URL of the CSV when process_csv returns.
C19_NoFailureAbortsBatch ==
    (crawl.pc = "returned" /\ ~crawl.stop) =>
        \A r \in 1..Len(crawl.csv) : crawl.csv[r] => r \in crawl.attempted

\* the number of _save_elements calls made for row r
SaveCallsFor(r) ==
    Cardinality({ i \in 1..Len(crawl.save_calls) : crawl.save_calls[i] = r })

\* process_url has returned for row r
PageVisitOver(r) == r < crawl.row

\* C21: every page visit whose discovery call completed has had
\* _save_elements called exactly once when the visit is over (and never
\* twice before), and the envelope written for the page carries the
\* discovery output, in order, with elements_count equal to its length.
C21_ReportOncePerDiscovery ==
    /\ \A r \in crawl.discovered :
           /\ SaveCallsFor(r) <= 1
           /\ PageVisitOver(r) => SaveCallsFor(r) = 1
    /\ crawl.envelope.written =>
           /\ crawl.envelope.elements = crawl.interaction_elements
           /\ crawl.envelope.elements_count = Len(crawl.envelope.elements)

(***************************************************************************)
(* Order of the discovery output (SpecDiscover).                           *)
(***************************************************************************)
RECURSIVE IsSubsequence(_, _)
\* sub is seq with some of its entries left out
IsSubsequence(sub, seq) ==
    IF sub = <<>> THEN TRUE
    ELSE IF seq = <<>> THEN FALSE
    ELSE IsSubsequence(IF Head(sub) = Head(seq) THEN Tail(sub) ELSE sub, Tail(seq))

TypeRank(type) ==
    CASE type = "keyword_match" -> 1
      [] type = "selector_match" -> 2
      [] type = "svg_match" -> 3
      [] OTHER -> 4

\* the position in its catalog of the keyword or selector a record names
TermIndex(info) ==
    CASE info.match_type = "keyword_match" ->
             CHOOSE k \in 1..Len(INTERACTION_KEYWORDS) :
                 INTERACTION_KEYWORDS[k] = info.match_term
      [] info.match_type = "selector_match" ->
             CHOOSE k \in 1..Len(ELEMENT_SELECTORS) :
                 SelectorText(ELEMENT_SELECTORS[k]) = info.match_term
      [] OTHER -> 1

\* records in strategy order, and in catalog order within a strategy
InStrategyOrder(elems) ==
    \A i, j \in 1..Len(elems) :
        i < j =>
            \/ TypeRank(elems[i].match_type) < TypeRank(elems[j].match_type)
            \/ /\ elems[i].match_type = elems[j].match_type
               /\ TermIndex(elems[i]) <= TermIndex(elems[j])

\* what the driver answered to the k-th query of a strategy, as the elements
\* that are scored
QueryResult(strategy, k) ==
    CASE strategy = 1 -> KeywordQuery(dom, INTERACTION_KEYWORDS[k])
      [] strategy = 2 -> SelectorQuery(dom, ELEMENT_SELECTORS[k])
      [] strategy = 3 -> SvgQuery(dom)
      [] OTHER -> ParentsOf(dom, CounterQuery(dom))

\* the elements of the raw candidates the k-th query of a strategy produced
NodesFrom(strategy, k) ==
    LET FromQuery(i) == /\ found_from[i].strategy = strategy
                        /\ TermIndex(found_elements[i]) = k
        picked == SelectSeq([i \in 1..Len(found_from) |-> i], FromQuery)
    IN [n \in 1..Len(picked) |-> found_from[picked[n]].node]

QueriesOf(strategy) ==
    CASE strategy = 1 -> 1..Len(INTERACTION_KEYWORDS)
      [] strategy = 2 -> 1..Len(ELEMENT_SELECTORS)
      [] OTHER -> {1}

\* C22: the returned list is a subsequence of the raw candidate list (kept
\* records unaltered and in their raw order); the raw list and the returned
\* list have keyword_match before selector_match before svg_match before
\* counter_match records and catalog order within a strategy; the candidates
\* of one query are in the order of its result.
C22_OutputIsOrderedSubsequence ==
    phase = "returned" =>
        /\ IsSubsequence(unique_elements, found_elements)
        /\ InStrategyOrder(found_elements)
        /\ InStrategyOrder(unique_elements)
        /\ \A st \in Strategies : \A k \in QueriesOf(st) :
               IsSubsequence(NodesFrom(st, k), QueryResult(st, k))

\* a call returning records of two strategies after deduplication dropped a
\* later candidate
C22_Witness ==
    /\ phase = "returned"
    /\ Len(unique_elements) < Len(found_elements)
    /\ \E i, j \in 1..Len(unique_elements) :
           unique_elements[i].match_type # unique_elements[j].match_type
    /\ \E i, j \in 1..Len(found_from) :
           /\ i # j
           /\ found_from[i].strategy = found_from[j].strategy
           /\ found_from[i].node # found_from[j].node

\* the query of a selector raised during the call
SelectorFault == fault.op = "find_elements" /\ fault.strategy = 2

\* the candidate is one the failing selector contributes when it does not fail
FromFailedSelector(c) ==
    /\ c.strategy = 2
    /\ c.info.match_term = SelectorText(ELEMENT_SELECTORS[fault.index])

\* the candidates of the call when no query fails
CleanCandidates ==
    find_interaction_elements(dom, INTERACTION_KEYWORDS, similarity_threshold, NoFault).cands

\* the raw list is the clean list without the failed selector's candidates
OnlyFailedSelectorMissing(clean) ==
    LET Kept(c) == ~FromFailedSelector(c)
    IN /\ found_elements = Infos(SelectSeq(clean, Kept))
       /\ found_from = Origins(SelectSeq(clean, Kept))

\* C23: when the query of one selector raises, the call still returns; the
\* raw list is the list of the call without the failure less the records of
\* that selector: the records of the keyword strategy and of the earlier
\* selectors are retained and the later selectors and strategies 3 and 4 ran.
C23_SelectorFailureSkipsOnlyIt ==
    (Ended /\ SelectorFault) =>
        /\ phase = "returned"
        /\ OnlyFailedSelectorMissing(CleanCandidates)
        /\ unique_elements = _deduplicate_elements(found_elements)

\* a failing selector that had candidates, with candidates collected before
\* it and candidates of a later selector or strategy collected after it
C23_Witness ==
    /\ Ended
    /\ SelectorFault
    /\ \E k \in 1..Len(CleanCandidates) : FromFailedSelector(CleanCandidates[k])
    /\ \E i, j \in 1..Len(found_from) :
           /\ found_from[i].strategy = 1
           /\ \/ found_from[j].strategy > 2
              \/ /\ found_from[j].strategy = 2
                 /\ TermIndex(found_elements[j]) > fault.index

\* the raw candidates of the counter strategy
CounterCandidates == { j \in 1..Len(found_from) : found_from[j].strategy = 4 }

\* the elements the counter strategy built its candidates from, in order
CounterNodes ==
    LET FromCounter(i) == i \in CounterCandidates
        picked == SelectSeq([i \in 1..Len(found_from) |-> i], FromCounter)
    IN [n \in 1..Len(picked) |-> found_from[picked[n]].node]

\* the immediate parents of the counter spans that the Scorer accepts, in the
\* order of the spans
AcceptedCounterParents ==
    LET Accepted(n) ==
            _is_likely_interaction_element(dom, n, INTERACTION_KEYWORDS,
                                           similarity_threshold,
                                           Fails(fault, "is_displayed", 4, 0))
    IN SelectSeq([k \in 1..Len(CounterQuery(dom)) |-> dom.parent[CounterQuery(dom)[k]]],
                 Accepted)

\* the record is a full record of element m: its tag and attributes, and its
\* locators (or the placeholder when the locator script raised)
DescribesElement(info, m) ==
    /\ DOMAIN info = RecordKeys
    /\ PlainFields(info, m)
    /\ info.element_xpath \in {_generate_xpath(dom, m), Unknown}
    /\ info.element_css \in {_generate_css_selector(dom, m), Unknown}

\* C24: the counter strategy emits one candidate for each counter span whose
\* immediate parent the Scorer accepts, built from the parent and not from
\* the span, with match_term 'counter_parent' and match_type 'counter_match';
\* a full record among them, and every counter_match record returned,
\* describes the parent.
C24_CounterStrategyEmitsParent ==
    phase = "returned" =>
        /\ CounterNodes = AcceptedCounterParents
        /\ \A j \in CounterCandidates :
               /\ found_elements[j].match_term = <<"counter_parent">>
               /\ found_elements[j].match_type = "counter_match"
               /\ ~Fails(fault, "get_attribute", 4, 0) =>
                      DescribesElement(found_elements[j], found_from[j].node)
        /\ \A i \in 1..Len(unique_elements) :
               unique_elements[i].match_type = "counter_match" =>
                   /\ StrategyOfOutput(i) = 4
                   /\ DescribesElement(unique_elements[i], NodeOfOutput(i))

\* a call in which the parent of a counter span was accepted and a
\* counter_match record was returned
C24_Witness ==
    /\ phase = "returned"
    /\ \E j \in CounterCandidates :
           /\ found_from[j].node \notin { CounterQuery(dom)[k] : k \in 1..Len(CounterQuery(dom)) }
           /\ dom.tag[found_from[j].node] = "button"
    /\ \E i \in 1..Len(unique_elements) : unique_elements[i].match_type = "counter_match"

(***************************************************************************)
(* The reference for the structural locator (SpecLocator).                 *)
(***************************************************************************)
RECURSIVE ReferencePath(_, _)
\* the locator as specified: the id step for an element with an id, the
\* fixed path for <body>, else the parent's locator followed by /tag[k]; the
\* document itself, which is no element, contributes the empty path
ReferencePath(d, m) ==
    IF m = DocumentNode THEN <<>>
    ELSE IF d.id[m] # EmptyStr THEN <<"//*[@id=\"">> \o d.id[m] \o <<"\"]">>
    ELSE IF m = BodyNode THEN <<"/", "html", "/", "body">>
    ELSE ReferencePath(d, d.parent[m])
             \o <<"/", d.tag[m], "[">> \o ToStr(PositionAmong(d, m, d.tag[m])) \o <<"]">>

RECURSIVE StepsWellFormed(_)
\* zero or more steps /tag or /tag[k]
StepsWellFormed(rest) ==
    IF rest = <<>> THEN TRUE
    ELSE IF Len(rest) < 2 \/ rest[1] # "/" \/ rest[2] \in {"/", "[", "]"} THEN FALSE
    ELSE StepsWellFormed(IF Len(rest) >= 5 /\ rest[3] = "[" /\ IsDigit(rest[4])
                                           /\ rest[5] = "]"
                         THEN Drop(rest, 5) ELSE Drop(rest, 2))

\* a path from the document root, or from an id step keyed on an id that an
\* element of the page carries
WellFormedPath(d, path) ==
    IF Len(path) >= 1 /\ path[1] = "//*[@id=\""
    THEN LET close == IndexOfToken(path, "\"]")
         IN /\ close > 2
            /\ \E a \in Elements(d) : d.id[a] = SubSeq(path, 2, close - 1)
            /\ StepsWellFormed(Drop(path, close))
    ELSE path # <<>> /\ StepsWellFormed(path)

\* C25: for every element of the page _generate_xpath returns the reference
\* locator, and the path is well-formed, also for an element without id that
\* is not below <body>.
C25_XPathEqualsReference ==
    phase = "located" =>
        /\ located.element_xpath = ReferencePath(dom, located.node)
        /\ WellFormedPath(dom, located.element_xpath)

(***************************************************************************)
(* Click replay (SpecCrawl).                                               *)
(***************************************************************************)
\* the locator of the given kind that the first record of the output carries
FirstRecordLocator(by) ==
    Get(crawl.interaction_elements[1],
        IF by = "xpath" THEN "element_xpath" ELSE "element_css", EmptyStr)

\* C26: on the page being visited, every locator sent to the driver is a
\* locator of the first record of the discovery output and is neither empty
\* nor "Unknown"; the structural locator is sent first and at most once, the
\* CSS locator at most once and only when the structural locator was not
\* sendable or locating/clicking by it failed; at most one click succeeds;
\* nothing is sent when the output is empty.
C26_ClickReplayPolicy ==
    LET sent == crawl.sent
    IN /\ crawl.interaction_elements = <<>> => sent = <<>>
       /\ Len(sent) <= 2
       /\ \A i \in 1..Len(sent) :
              /\ sent[i].locator = FirstRecordLocator(sent[i].by)
              /\ sent[i].locator # Unknown
              /\ sent[i].locator # EmptyStr
              /\ sent[i].by = "xpath" => i = 1
              /\ (sent[i].by = "css" /\ i = 2) => ~sent[1].clicked
              /\ (sent[i].by = "css" /\ i = 1) =>
                     FirstRecordLocator("xpath") \in {EmptyStr, Unknown}
       /\ Cardinality({ i \in 1..Len(sent) : sent[i].clicked }) <= 1
       /\ crawl.row \in crawl.clicks => \E i \in 1..Len(sent) : sent[i].clicked

\* a page with two records on which the click by the structural locator of
\* the first one failed and the click by its CSS locator succeeded
C26_Witness ==
    /\ Len(crawl.interaction_elements) = 2
    /\ Len(crawl.sent) = 2
    /\ crawl.sent[1].by = "xpath" /\ ~crawl.sent[1].clicked
    /\ crawl.sent[2].by = "css" /\ crawl.sent[2].clicked
    /\ crawl.interaction_elements[2].element_xpath = Unknown

(***************************************************************************)
(* Candidates missing from the discovery output (SpecDiscover).            *)
(***************************************************************************)
\* the j-th raw candidate is the record kept for its locator
KeptCandidate(j) ==
    \E i \in 1..Len(unique_elements) :
        /\ unique_elements[i] = found_elements[j]
        /\ FirstIndexOf(found_elements, XpathOf(unique_elements[i])) = j

\* an earlier raw candidate carries the same structural locator
EarlierSameLocator(j) ==
    /\ "element_xpath" \in DOMAIN found_elements[j]
    /\ \E i \in 1..(j - 1) :
           /\ "element_xpath" \in DOMAIN found_elements[i]
           /\ found_elements[i].element_xpath = found_elements[j].element_xpath

\* C27: a raw candidate (each one passed the Scorer) is missing from the
\* output of a returning call only if an earlier raw candidate has the same
\* structural locator.
C27_OnlyDuplicatesDropped ==
    phase = "returned" =>
        \A j \in 1..Len(found_elements) : ~KeptCandidate(j) => EarlierSameLocator(j)

(***************************************************************************)
(* Specification SpecGui: the Start and Stop buttons of CrawlerGUI, the     *)
(* crawler threads and the crawler_finished callbacks (gui.py 427-530).    *)
(* The handlers run on the main thread, one at a time; the crawler threads *)
(* interleave with them.  A thread is [pc, left, stopped_by]: its position *)
(* in run_crawler, the URLs its batch has left, and the run during which   *)
(* the Stop that ended its batch was issued (0: not ended by Stop).         *)
(***************************************************************************)
guiFrame == <<dom, located, found_elements, unique_elements, phase, INTERACTION_KEYWORDS,
              similarity_threshold, fault, found_from, raised, calls, verdict, crawl, disk>>

\* threading.Thread.is_alive() of self.crawler_thread (lines 526, 534)
IsAlive(g) == g.crawler_thread # 0 /\ g.threads[g.crawler_thread].pc # "dead"

\* start_crawler leaving the Start button enabled (a mutation: line 460 missing)
OnStart_StartStaysEnabled(g) ==
    [g EXCEPT !.stop_event = FALSE, !.stop_button = "normal", !.main = "starting"]

\* start_crawler, lines 457-462: clear the stop event, swap the buttons
OnStart(g) ==
    [g EXCEPT !.stop_event = FALSE, !.start_button = "disabled",
              !.stop_button = "normal", !.main = "starting"]

\* stop_crawler, lines 526-530
OnStop(g) ==
    IF IsAlive(g)
    THEN [g EXCEPT !.stop_event = TRUE, !.stop_run = g.crawler_thread,
                   !.stop_button = "disabled"]
    ELSE g

\* crawler_finished, lines 518-522
OnFinished(g) ==
    [g EXCEPT !.start_button = "normal", !.stop_button = "disabled", !.pending = @ - 1]

GuiInit ==
    /\ dom = EmptyDom
    /\ located = NotLocated
    /\ NoCall
    /\ found_elements = <<>>
    /\ unique_elements = <<>>
    /\ phase = "gui"

\* a click on Start: start_crawler up to the creation of the thread
StartClicked ==
    /\ gui.main = "idle"
    /\ gui.start_button = "normal"
    /\ Len(gui.threads) < MaxRuns
    /\ gui' = OnStart(gui)
    /\ UNCHANGED guiFrame

\* start_crawler, lines 465-470: the new thread is stored and started
StartThread ==
    /\ gui.main = "starting"
    /\ \E n \in 0..MaxPages :
          gui' = [gui EXCEPT !.threads = Append(@, [pc |-> "setup", left |-> n,
                                                    stopped_by |-> 0]),
                             !.crawler_thread = Len(gui.threads) + 1,
                             !.main = "idle"]
    /\ UNCHANGED guiFrame

\* a click on Stop while a crawler thread is alive (otherwise it does nothing)
StopClicked ==
    /\ gui.main = "idle"
    /\ gui.stop_button = "normal"
    /\ IsAlive(gui)
    /\ gui' = OnStop(gui)
    /\ UNCHANGED guiFrame

\* run_crawler, lines 477-498: the finder and the crawler are built, or an
\* exception takes the thread to its finally block
ThreadSetup(t) ==
    /\ gui.threads[t].pc = "setup"
    /\ \E next \in {"batch", "finally"} :
          gui' = [gui EXCEPT !.threads[t].pc = next]
    /\ UNCHANGED guiFrame

\* process_csv (line 501): the poll of the stop event at the top of the row
\* loop, then one page
ThreadPage(t) ==
    /\ gui.threads[t].pc = "batch"
    /\ gui' = IF gui.stop_event
              THEN [gui EXCEPT !.threads[t].pc = "close",
                               !.threads[t].stopped_by = gui.stop_run]
              ELSE IF gui.threads[t].left = 0
              THEN [gui EXCEPT !.threads[t].pc = "close"]
              ELSE [gui EXCEPT !.threads[t].left = @ - 1]
    /\ UNCHANGED guiFrame

\* close_driver and the final log lines (lines 504-512)
ThreadClose(t) ==
    /\ gui.threads[t].pc = "close"
    /\ gui' = [gui EXCEPT !.threads[t].pc = "finally"]
    /\ UNCHANGED guiFrame

\* finally: self.after(0, self.crawler_finished) (lines 514-516)
ThreadFinally(t) ==
    /\ gui.threads[t].pc = "finally"
    /\ gui' = [gui EXCEPT !.threads[t].pc = "scheduled", !.pending = @ + 1]
    /\ UNCHANGED guiFrame

\* run_crawler returns and the thread ends
ThreadExit(t) ==
    /\ gui.threads[t].pc = "scheduled"
    /\ gui' = [gui EXCEPT !.threads[t].pc = "dead"]
    /\ UNCHANGED guiFrame

\* the main loop runs a scheduled crawler_finished
Finished ==
    /\ gui.main = "idle"
    /\ gui.pending > 0
    /\ gui' = OnFinished(gui)
    /\ UNCHANGED guiFrame

GuiNext ==
    \/ StartClicked \/ StartThread \/ StopClicked \/ Finished
    \/ \E t \in 1..Len(gui.threads) :
          \/ ThreadSetup(t) \/ ThreadPage(t) \/ ThreadClose(t)
          \/ ThreadFinally(t) \/ ThreadExit(t)

SpecGui == GuiInit /\ [][GuiNext]_vars

\* the threads between their start and the return of close_driver
RunningBatch == { t \in 1..Len(gui.threads) : gui.threads[t].pc \in {"setup", "batch", "close"} }

\* the threads whose crawler_finished has not been scheduled yet
Unfinished == { t \in 1..Len(gui.threads) : gui.threads[t].pc \notin {"scheduled", "dead"} }

GuiSafe ==
    /\ Cardinality(RunningBatch) <= 1
    /\ gui.start_button = "normal" => (Unfinished = {} /\ gui.pending = 0)
    /\ \A t \in 1..Len(gui.threads) : gui.threads[t].stopped_by \in {0, t}
    /\ gui.stop_event => (gui.stop_run = gui.crawler_thread /\ gui.crawler_thread # 0)

\* the stop event goes from clear to set only while the crawler thread is alive
StopSetOnlyWhileAlive == (~gui.stop_event /\ gui.stop_event') => IsAlive(gui)

\* C28: at most one crawler thread is between its start and the end of its
\* batch; Start is enabled only when every thread started has had its
\* crawler_finished run; a batch is ended only by a Stop issued during its
\* own run; the stop event is set only while the crawler thread is alive and
\* is clear when a new thread starts.
C28_OneBatchAtATime == [](GuiSafe) /\ [][StopSetOnlyWhileAlive]_vars

\* the second run at work, with the stop event clear, after the first run
\* was ended by Stop and while the first thread has not ended yet
C28_Witness ==
    /\ Len(gui.threads) = 2
    /\ gui.threads[1].stopped_by = 1
    /\ gui.threads[1].pc = "scheduled"
    /\ gui.threads[2].pc = "batch"
    /\ ~gui.stop_event

(***************************************************************************)
(* The browser session of a batch (SpecCrawl).                             *)
(***************************************************************************)
\* the rows whose process_url ran setup_driver
SetupRows == { r \in 1..Len(crawl.csv) : <<r, "setup">> \in crawl.done }

\* the rows whose process_url was not cancelled at its entry
EnteredRows == crawl.attempted \ crawl.began_stopped

\* C29: the crawler holds at most one session, and holds one exactly when
\* driver is set; setup_driver runs at most once in a batch, in the first
\* process_url not cancelled at its entry, and every page load uses the
\* session created then or earlier; once close_driver has run after the
\* batch, however the batch ended, no session is left and driver is None.
C29_SessionLifecycle ==
    /\ crawl.sessions \in {0, 1}
    /\ crawl.driver <=> crawl.sessions = 1
    /\ Cardinality(SetupRows) <= 1
    /\ \A r \in SetupRows : \A q \in EnteredRows : r <= q
    /\ \A r \in 1..Len(crawl.csv) :
           <<r, "load">> \in crawl.done => \E s \in SetupRows : s <= r
    /\ crawl.pc = "closed" => (~crawl.driver /\ crawl.sessions = 0)

\* a batch closed after the session created for the first URL was reused for
\* the second one, and the batch was then cancelled
C29_Witness ==
    /\ crawl.pc = "closed"
    /\ crawl.stop
    /\ SetupRows = {1}
    /\ <<2, "load">> \in crawl.done

(***************************************************************************)
(* Specification SpecProfile: the directory of one browser profile under   *)
(* BrowserProfile.PROFILES_DIR (browser_profile.py).  disk.entries are the *)
(* names in the directory; user_data is a subdirectory, the others are     *)
(* files.  disk.call records the last delete_profile: what it returned and *)
(* the directory before it.                                                *)
(***************************************************************************)
profileFrame == <<dom, located, found_elements, unique_elements, phase, INTERACTION_KEYWORDS,
                  similarity_threshold, fault, found_from, raised, calls, verdict, crawl,
                  gui>>

\* the files _save_browser_state writes, in the order it writes them
StateFiles == <<"cookies.pkl", "local_storage.json", "session_storage.json", "profile.json">>

Subdirectories == {"user_data"}

\* a directory left by the earlier version: cookies.pkl only (lines 245-248)
LegacyProfile == [NoDisk EXCEPT !.exists = TRUE, !.entries = {"cookies.pkl"}]

\* BrowserProfile.get_all_profiles lists the profile (lines 236-248)
Listed(d) ==
    /\ d.exists
    /\ \/ "profile.json" \in d.entries
       \/ "cookies.pkl" \in d.entries

\* the orders os.listdir can return the entries in
ListdirOrders(entries) ==
    { order \in [1..Cardinality(entries) -> entries] :
          \A i, j \in DOMAIN order : order[i] = order[j] => i = j }

RECURSIVE RemoveEach(_, _)
\* the loop of lines 265-266: os.remove raises on a subdirectory, which ends
\* the loop with what was removed so far
RemoveEach(order, entries) ==
    IF order = <<>> THEN [raised |-> FALSE, entries |-> entries]
    ELSE IF Head(order) \in Subdirectories THEN [raised |-> TRUE, entries |-> entries]
    ELSE RemoveEach(Tail(order), entries \ {Head(order)})

\* delete_profile (lines 262-272) on the directory d, listed in the given order
delete_profile(d, order) ==
    IF ~d.exists THEN [returned |-> FALSE, exists |-> FALSE, entries |-> {}]
    ELSE LET r == RemoveEach(order, d.entries)
         IN IF r.raised
            THEN [returned |-> FALSE, exists |-> TRUE, entries |-> r.entries]
            ELSE [returned |-> TRUE, exists |-> FALSE, entries |-> {}]

ProfileInit ==
    /\ dom = EmptyDom
    /\ located = NotLocated
    /\ INTERACTION_KEYWORDS = BuiltinKeywords
    /\ similarity_threshold = DefaultThreshold
    /\ fault = NoFault
    /\ found_from = <<>>
    /\ raised = FALSE
    /\ calls = [t \in Thresholds |-> NotCalled]
    /\ verdict = "none"
    /\ crawl = NoCrawl
    /\ gui = NoGui
    /\ disk \in {NoDisk, LegacyProfile}
    /\ found_elements = <<>>
    /\ unique_elements = <<>>
    /\ phase = "profiles"

\* BrowserProfile(profile_name): both directories are ensured (lines 25-40)
NewProfile ==
    /\ disk' = [disk EXCEPT !.exists = TRUE, !.entries = @ \cup {"user_data"}]
    /\ disk' # disk
    /\ UNCHANGED profileFrame

\* _save_browser_state (lines 147-184): the files are written one after the
\* other; an exception ends the writing and is logged
SaveBrowserState ==
    /\ disk.exists
    /\ "user_data" \in disk.entries
    /\ \E written \in 0..Len(StateFiles) :
          disk' = [disk EXCEPT !.entries = @ \cup { StateFiles[k] : k \in 1..written }]
    /\ disk' # disk
    /\ UNCHANGED profileFrame

\* BrowserProfile.delete_profile(profile_name)
DeleteProfile ==
    /\ \E order \in ListdirOrders(disk.entries) :
          \E r \in { delete_profile(disk, order) } :
             disk' = [exists |-> r.exists, entries |-> r.entries,
                      call |-> [made |-> TRUE, returned |-> r.returned,
                                before |-> [exists |-> disk.exists,
                                            entries |-> disk.entries]]]
    /\ disk' # disk
    /\ UNCHANGED profileFrame

ProfileNext == NewProfile \/ SaveBrowserState \/ DeleteProfile

SpecProfile == ProfileInit /\ [][ProfileNext]_vars

\* C30: after delete_profile returned True the directory is gone and the
\* profile is no longer listed; after it returned False the directory and
\* its contents are as before the call; it returns True for a profile
\* created through BrowserProfile (with user_data) whose state was saved.
C30_DeleteAllOrNothing ==
    disk.call.made =>
        /\ disk.call.returned => (~disk.exists /\ ~Listed(disk))
        /\ ~disk.call.returned =>
               /\ disk.exists = disk.call.before.exists
               /\ disk.entries = disk.call.before.entries
        /\ (/\ disk.call.before.exists
            /\ "user_data" \in disk.call.before.entries
            /\ "profile.json" \in disk.call.before.entries) => disk.call.returned

=============================================================================
